---- MODULE Spec2Model ----
(***************************************************************************)
(* athame: a weekly time-window schedule (athame/ast.py), built by a       *)
(* recursive-descent parser (athame/parser.py) from a token stream.        *)
(*                                                                         *)
(* Timestamps are pendulum.DateTime values: an absolute instant (seconds   *)
(* since a Sunday 00:00:00 UTC) together with a fixed UTC offset.  The     *)
(* weekday, hour, minute and second of a timestamp are those of its local  *)
(* time (instant + offset); comparison is comparison of instants.          *)
(***************************************************************************)
EXTENDS Integers, Sequences, FiniteSets, TLC

VARIABLES
    schedule,         \* the Schedule object: allowed, forbidden, tz
    weekday_interval, \* a WeekdayInterval object used on its own
    source,           \* the Parser's input: the token stream the Lexer hands it;
                      \* the Lexer's input: the characters of the text
    written,          \* the schedule text as its author structured it
    now,              \* the timestamp the caller queries with: the clock's reading
    lexer,            \* the Lexer object reading a text
    trie,             \* a Trie object
    added,            \* the strings the caller has added to the trie
    call              \* the last operation: its name, argument and outcome

vars == <<schedule, weekday_interval, source, written, now, lexer, trie, added, call>>

\* the value of an expression evaluated once: the element of a one-element set
the(S) == CHOOSE v \in S : TRUE

----------------------------------------------------------------------------
(* pendulum.DateTime, as athame/ast.py uses it *)

SecPerMinute == 60
MinPerHour == 60
HoursPerDay == 24
DaysPerWeek == 7
SecPerHour == SecPerMinute * MinPerHour
SecPerDay == SecPerHour * HoursPerDay
SecPerWeek == SecPerDay * DaysPerWeek

Local(dt) == dt.inst + dt.tz

dt_day_of_week(dt) == (Local(dt) \div SecPerDay) % DaysPerWeek
dt_hour(dt) == (Local(dt) \div SecPerHour) % HoursPerDay
dt_minute(dt) == (Local(dt) \div SecPerMinute) % MinPerHour
dt_second(dt) == Local(dt) % SecPerMinute

\* in_tz leaving the timestamp in the zone it came in
in_tz_unconverted(dt, tz) == dt

\* moment.in_tz(tz): the same instant, expressed in another zone
in_tz(dt, tz) == [inst |-> dt.inst, tz |-> tz]

\* moment.at(hour=h, minute=m): same local date, given time, second 0
dt_at(dt, h, m) ==
    [dt EXCEPT !.inst = (Local(dt) \div SecPerDay) * SecPerDay
                            + h * SecPerHour + m * SecPerMinute - dt.tz]

dt_add_minutes(dt, n) == [dt EXCEPT !.inst = @ + n * SecPerMinute]
dt_add_days(dt, n) == [dt EXCEPT !.inst = @ + n * SecPerDay]

\* moment.next(day_of_week, keep_time): add one day, then keep adding a day
\* until the weekday matches; the time is reset to 00:00 unless keep_time
dt_next(dt, day_of_week, keep_time) ==
    LET d0 == IF keep_time THEN dt ELSE dt_at(dt, 0, 0)
        k == CHOOSE k \in 1..DaysPerWeek :
                 /\ dt_day_of_week(dt_add_days(d0, k)) = day_of_week
                 /\ \A j \in 1..(k - 1) :
                        dt_day_of_week(dt_add_days(d0, j)) # day_of_week
    IN dt_add_days(d0, k)

----------------------------------------------------------------------------
(* athame/ast.py: Time, Interval, WeekdayInterval *)

Time(h, m) == [hour |-> h, minute |-> m]
start_of_day == Time(0, 0)
end_of_day == Time(23, 59)
Interval(s, e) == [start |-> s, end |-> e]
WeekdayInterval(d, i) == [day_of_week |-> d, interval |-> i]

\* WeekdayInterval.__contains__
contains(self, dt) ==
    /\ self.day_of_week = dt_day_of_week(dt)
    /\ \/ /\ self.interval.start.hour < dt_hour(dt)
          /\ dt_hour(dt) < self.interval.end.hour
       \/ /\ self.interval.start.hour = dt_hour(dt)
          /\ dt_hour(dt) # self.interval.end.hour
          /\ self.interval.start.minute <= dt_minute(dt)
       \/ /\ self.interval.start.hour # dt_hour(dt)
          /\ dt_hour(dt) = self.interval.end.hour
          /\ self.interval.end.minute >= dt_minute(dt)
       \/ /\ self.interval.start.hour = self.interval.end.hour
          /\ self.interval.end.hour = dt_hour(dt)
          /\ self.interval.start.minute <= dt_minute(dt)
          /\ dt_minute(dt) <= self.interval.end.minute

\* next_start_after with today's occurrence accepted only when strictly later
next_start_after_strict(self, moment) ==
    IF dt_day_of_week(moment) = self.day_of_week
    THEN LET time_shifted_moment ==
                 dt_at(moment, self.interval.start.hour, self.interval.start.minute)
         IN IF time_shifted_moment.inst > moment.inst
            THEN time_shifted_moment
            ELSE dt_next(time_shifted_moment, self.day_of_week, TRUE)
    ELSE dt_at(dt_next(moment, self.day_of_week, FALSE),
               self.interval.start.hour, self.interval.start.minute)

\* WeekdayInterval.next_start_after
next_start_after(self, moment) ==
    IF dt_day_of_week(moment) = self.day_of_week
    THEN LET time_shifted_moment ==
                 dt_at(moment, self.interval.start.hour, self.interval.start.minute)
         IN IF time_shifted_moment.inst >= moment.inst
            THEN time_shifted_moment
            ELSE dt_next(time_shifted_moment, self.day_of_week, TRUE)
    ELSE dt_at(dt_next(moment, self.day_of_week, FALSE),
               self.interval.start.hour, self.interval.start.minute)

\* next_end_after with today's occurrence accepted when equal to the moment
next_end_after_not_strict(self, moment) ==
    IF dt_day_of_week(moment) = self.day_of_week
    THEN LET time_shifted_moment ==
                 dt_add_minutes(
                     dt_at(moment, self.interval.end.hour, self.interval.end.minute), 1)
         IN IF time_shifted_moment.inst >= moment.inst
            THEN time_shifted_moment
            ELSE dt_next(time_shifted_moment, self.day_of_week, TRUE)
    ELSE dt_add_minutes(
             dt_at(dt_next(moment, self.day_of_week, FALSE),
                   self.interval.end.hour, self.interval.end.minute), 1)

\* WeekdayInterval.next_end_after
next_end_after(self, moment) ==
    IF dt_day_of_week(moment) = self.day_of_week
    THEN LET time_shifted_moment ==
                 dt_add_minutes(
                     dt_at(moment, self.interval.end.hour, self.interval.end.minute), 1)
         IN IF time_shifted_moment.inst > moment.inst
            THEN time_shifted_moment
            ELSE dt_next(time_shifted_moment, self.day_of_week, TRUE)
    ELSE dt_add_minutes(
             dt_at(dt_next(moment, self.day_of_week, FALSE),
                   self.interval.end.hour, self.interval.end.minute), 1)

----------------------------------------------------------------------------
(* athame/ast.py: Directive, Agenda, Schedule *)

Directive == {"ALLOW", "FORBID"}
Agenda(intervals, directive) == [intervals |-> intervals, directive |-> directive]

\* the product with the days varying slowest
product_days_outer(intervals, days) ==
    [n \in 1..(Len(intervals) * Len(days)) |->
        WeekdayInterval(days[((n - 1) \div Len(intervals)) + 1],
                        intervals[((n - 1) % Len(intervals)) + 1])]

\* itertools.product(intervals, days): the first factor varies slowest
product(intervals, days) ==
    [n \in 1..(Len(intervals) * Len(days)) |->
        WeekdayInterval(days[((n - 1) % Len(days)) + 1],
                        intervals[((n - 1) \div Len(days)) + 1])]

\* always_allowed counting the weekdays from 1
always_allowed_from_one(tz) ==
    [allowed |-> [n \in 1..DaysPerWeek |->
                     WeekdayInterval(n, Interval(start_of_day, end_of_day))],
     forbidden |-> <<>>,
     tz |-> tz]

\* Schedule.always_allowed(tz), for a tz that is given: one entry for each
\* day_of_week in range(7)
always_allowed(tz) ==
    [allowed |-> [n \in 1..DaysPerWeek |->
                     WeekdayInterval(n - 1, Interval(start_of_day, end_of_day))],
     forbidden |-> <<>>,
     tz |-> tz]

\* add_agenda_on_days assigning the list instead of extending it
add_agenda_on_days_assigning(self, agenda, days) ==
    LET weekday_intervals == product(agenda.intervals, days)
    IN IF agenda.directive = "ALLOW"
       THEN [self EXCEPT !.allowed = weekday_intervals]
       ELSE [self EXCEPT !.forbidden = weekday_intervals]

\* Schedule.add_agenda_on_days: the schedule after the call
add_agenda_on_days(self, agenda, days) ==
    LET weekday_intervals == product(agenda.intervals, days)
    IN IF agenda.directive = "ALLOW"
       THEN [self EXCEPT !.allowed = @ \o weekday_intervals]
       ELSE [self EXCEPT !.forbidden = @ \o weekday_intervals]

\* any(moment in weekday_interval for weekday_interval in list)
any_contains(list, dt) == \E i \in 1..Len(list) : contains(list[i], dt)

\* is_allowed_at evaluated on the moment as given, in its own zone
is_allowed_at_own_tz(self, moment) ==
    any_contains(self.allowed, moment) /\ ~any_contains(self.forbidden, moment)

\* Schedule.is_allowed_at
is_allowed_at(self, moment) ==
    LET m == in_tz(moment, self.tz)
    IN any_contains(self.allowed, m) /\ ~any_contains(self.forbidden, m)

\* x put into the ascending sequence rest, after the elements not after it
insort(rest, x) ==
    LET k == Cardinality({i \in 1..Len(rest) : rest[i].inst <= x.inst})
    IN SubSeq(rest, 1, k) \o <<x>> \o SubSeq(rest, k + 1, Len(rest))

\* sorted(seq) of timestamps: ascending by instant, stable
RECURSIVE sorted(_)
sorted(seq) ==
    IF seq = <<>> THEN <<>>
    ELSE the({insort(rest, seq[Len(seq)]) :
                  rest \in {sorted(SubSeq(seq, 1, Len(seq) - 1))}})

\* the first element taken by indexing: IndexError when there is none
unpack_first_by_index(seq) ==
    IF seq = <<>> THEN [raised |-> "IndexError"]
    ELSE [raised |-> "none", value |-> seq[1]]

\* best, *_ = seq: the first element, or ValueError when there is none
unpack_first(seq) ==
    IF seq = <<>> THEN [raised |-> "ValueError"]
    ELSE [raised |-> "none", value |-> seq[1]]

\* exceptions.ScheduleError.handle_errors(message, exception_class=ValueError):
\* a ValueError raised in the body leaves as a ScheduleError with the message
handle_errors(message, outcome) ==
    IF outcome.raised = "ValueError"
    THEN [raised |-> "ScheduleError", message |-> message]
    ELSE outcome

NoAllowedIntervals == "no allowed intervals in the schedule"

\* the candidates of next_moment_allowed_after, in the order the code lists them
candidates(self, m) ==
    <<m>> \o [i \in 1..Len(self.allowed) |-> next_start_after(self.allowed[i], m)]
          \o [i \in 1..Len(self.forbidden) |-> next_end_after(self.forbidden[i], m)]

\* next_moment_allowed_after taking the earliest candidate without filtering
next_moment_allowed_after_unfiltered(self, moment) ==
    LET m == in_tz(moment, self.tz)
    IN handle_errors(NoAllowedIntervals, unpack_first(sorted(candidates(self, m))))

\* Schedule.next_moment_allowed_after
next_moment_allowed_after(self, moment) ==
    LET m == in_tz(moment, self.tz)
        allowed_only == SelectSeq(candidates(self, m), LAMBDA c : is_allowed_at(self, c))
    IN handle_errors(NoAllowedIntervals, unpack_first(sorted(allowed_only)))

\* the ScheduleError of is_allowed_at_or_raise: its message names the weekday,
\* hour and minute moment.format('dddd HH:mm') gives, then "is not allowed"
NotAllowedError(moment) ==
    [raised |-> "ScheduleError",
     message |-> [day_of_week |-> dt_day_of_week(moment),
                  hour |-> dt_hour(moment),
                  minute |-> dt_minute(moment),
                  text |-> "is not allowed"]]
ReturnsNormally == [raised |-> "none"]

\* is_allowed_at_or_raise raising when the moment is allowed
is_allowed_at_or_raise_when_allowed(self, moment) ==
    IF is_allowed_at(self, moment) THEN NotAllowedError(moment) ELSE ReturnsNormally

\* Schedule.is_allowed_at_or_raise
is_allowed_at_or_raise(self, moment) ==
    IF ~is_allowed_at(self, moment) THEN NotAllowedError(moment) ELSE ReturnsNormally

\* pendulum.now(): the k-th reading of the clock during a call, the clock
\* given as its successive readings
pendulum_now(clock, k) == clock[k]

\* Schedule.is_allowed_now
is_allowed_now(self, clock) == is_allowed_at(self, pendulum_now(clock, 1))

\* Schedule.is_allowed_now_or_raise
is_allowed_now_or_raise(self, clock) == is_allowed_at_or_raise(self, pendulum_now(clock, 1))

\* sleep_until_allowed reading the clock again for the duration
sleep_until_allowed_reading_twice(self, clock) ==
    LET moment == pendulum_now(clock, 1)
    IN IF is_allowed_at(self, moment)
       THEN [raised |-> "none", reads |-> 1, sleeps |-> <<>>]
       ELSE the({IF next_allowed_moment.raised # "none"
                 THEN [raised |-> next_allowed_moment.raised,
                       message |-> next_allowed_moment.message,
                       reads |-> 1, sleeps |-> <<>>]
                 ELSE [raised |-> "none", reads |-> 2,
                       sleeps |-> <<next_allowed_moment.value.inst
                                        - pendulum_now(clock, 2).inst>>] :
                     next_allowed_moment \in {next_moment_allowed_after(self, moment)}})

\* Schedule.sleep_until_allowed: the readings of the clock it takes and the
\* durations, in seconds, of the sleep calls it makes
sleep_until_allowed(self, clock) ==
    LET moment == pendulum_now(clock, 1)
    IN IF is_allowed_at(self, moment)
       THEN [raised |-> "none", reads |-> 1, sleeps |-> <<>>]
       ELSE the({IF next_allowed_moment.raised # "none"
                 THEN [raised |-> next_allowed_moment.raised,
                       message |-> next_allowed_moment.message,
                       reads |-> 1, sleeps |-> <<>>]
                 ELSE [raised |-> "none", reads |-> 1,
                       sleeps |-> <<next_allowed_moment.value.inst - moment.inst>>] :
                     next_allowed_moment \in {next_moment_allowed_after(self, moment)}})

----------------------------------------------------------------------------
(* athame/lexer.py: tokens, as the Parser reads them *)

TokenType == {"END_INPUT", "ALLOW", "FORBID", "DAY_OF_WEEK", "TIME", "DASH"}

\* a lexeme is the sequence of its characters
Token(type, lexeme) == [type |-> type, lexeme |-> lexeme]

\* the token the Lexer holds after i calls of next_token on the stream src:
\* the i-th token, and END_INPUT from the end of the input on
token_at(src, i) == IF i <= Len(src) THEN src[i] ELSE Token("END_INPUT", <<>>)

UpperCase ==
    <<"A", "B", "C", "D", "E", "F", "G", "H", "I", "J", "K", "L", "M",
      "N", "O", "P", "Q", "R", "S", "T", "U", "V", "W", "X", "Y", "Z">>
LowerCase ==
    <<"a", "b", "c", "d", "e", "f", "g", "h", "i", "j", "k", "l", "m",
      "n", "o", "p", "q", "r", "s", "t", "u", "v", "w", "x", "y", "z">>

\* str.lower()
lower(string) ==
    [n \in 1..Len(string) |->
        IF \E k \in 1..Len(UpperCase) : UpperCase[k] = string[n]
        THEN LowerCase[CHOOSE k \in 1..Len(UpperCase) : UpperCase[k] = string[n]]
        ELSE string[n]]

Digits == <<"0", "1", "2", "3", "4", "5", "6", "7", "8", "9">>
digit_value(c) == (CHOOSE k \in 1..Len(Digits) : Digits[k] = c) - 1

\* int(string) of a string of decimal digits
RECURSIVE int(_)
int(string) ==
    IF string = <<>> THEN 0
    ELSE 10 * int(SubSeq(string, 1, Len(string) - 1)) + digit_value(string[Len(string)])

\* Time.from_string: hour from string[:2], minute from string[2:]
from_string(string) == Time(int(SubSeq(string, 1, 2)), int(SubSeq(string, 3, Len(string))))

----------------------------------------------------------------------------
(* athame/trie.py: a Trie is its nodes, each named by the path of characters  *)
(* from the root (the root is the empty path) and holding its is_terminal     *)
(* entry; the root has that entry only once the empty string is added, and a  *)
(* missing entry reads as false *)

\* Trie()
Trie == <<>> :> FALSE

\* the prefixes of string of length 1..n
prefixes(string, n) == {SubSeq(string, 1, k) : k \in 1..n}

\* the walk "for char in string: current = current.get(char)" finds a node
\* for every character
has_path(self, string) == \A p \in prefixes(string, Len(string)) : p \in DOMAIN self

\* add marking the final node only when the walk created it
add_mark_new_only(self, string) ==
    LET s == lower(string)
    IN [p \in DOMAIN self \cup prefixes(s, Len(s)) |->
           IF p \in DOMAIN self THEN self[p] ELSE p = s]

\* Trie.add: setdefault(char, dict(is_terminal=False)) along the walk, then
\* is_terminal = True on the node reached
add(self, string) ==
    LET s == lower(string)
    IN [p \in DOMAIN self \cup prefixes(s, Len(s)) |->
           IF p = s THEN TRUE
           ELSE IF p \in DOMAIN self THEN self[p] ELSE FALSE]

\* from_strings(*strings)
RECURSIVE from_strings(_)
from_strings(strings) ==
    IF strings = <<>> THEN Trie
    ELSE add(from_strings(SubSeq(strings, 1, Len(strings) - 1)), strings[Len(strings)])

\* __contains__ answering for any node on a path, terminal or not
trie_contains_any_node(self, string) == has_path(self, lower(string))

\* Trie.__contains__, as the operator "in" gives it
trie_contains(self, string) ==
    LET s == lower(string)
    IN IF has_path(self, s) THEN self[s] ELSE FALSE

\* Trie.contains_prefix
contains_prefix(self, string) == has_path(self, lower(string))

\* ord(c) of the characters used
ord(c) ==
    IF \E k \in 1..Len(Digits) : Digits[k] = c
    THEN 47 + (CHOOSE k \in 1..Len(Digits) : Digits[k] = c)
    ELSE IF \E k \in 1..Len(UpperCase) : UpperCase[k] = c
    THEN 64 + (CHOOSE k \in 1..Len(UpperCase) : UpperCase[k] = c)
    ELSE IF \E k \in 1..Len(LowerCase) : LowerCase[k] = c
    THEN 96 + (CHOOSE k \in 1..Len(LowerCase) : LowerCase[k] = c)
    ELSE IF c = "-" THEN 45
    ELSE IF c = " " THEN 32
    ELSE IF c = "\t" THEN 9
    ELSE IF c = "\n" THEN 10
    ELSE IF c = "\f" THEN 12
    ELSE 33

\* sorted(chars) of a collection of distinct characters
RECURSIVE sorted_chars(_)
sorted_chars(chars) ==
    IF chars = {} THEN <<>>
    ELSE LET least == CHOOSE c \in chars : \A d \in chars : ord(c) <= ord(d)
         IN <<least>> \o sorted_chars(chars \ {least})

\* the keys of the node at path s other than "is_terminal"
children(self, s) == {p[Len(p)] : p \in {q \in DOMAIN self : Len(q) = Len(s) + 1
                                                   /\ SubSeq(q, 1, Len(s)) = s}}

\* chars_after answering for the deepest node the walk reaches
chars_after_deepest(self, string) ==
    LET s == lower(string)
        n == CHOOSE k \in 0..Len(s) :
                 /\ has_path(self, SubSeq(s, 1, k))
                 /\ \A j \in (k + 1)..Len(s) : ~has_path(self, SubSeq(s, 1, j))
    IN sorted_chars(children(self, SubSeq(s, 1, n)))

\* Trie.chars_after
chars_after(self, string) ==
    LET s == lower(string)
    IN IF has_path(self, s) THEN sorted_chars(children(self, s)) ELSE <<>>

\* max_match_for returning the longest key on the path
max_match_for_terminal(self, string) ==
    LET s == lower(string)
        n == CHOOSE k \in 0..Len(s) :
                 /\ (k = 0 \/ trie_contains(self, SubSeq(s, 1, k)))
                 /\ \A j \in (k + 1)..Len(s) : ~trie_contains(self, SubSeq(s, 1, j))
    IN SubSeq(s, 1, n)

\* Trie.max_match_for: the characters walked before a node is missing
max_match_for(self, string) ==
    LET s == lower(string)
        n == CHOOSE k \in 0..Len(s) :
                 /\ has_path(self, SubSeq(s, 1, k))
                 /\ (k < Len(s) => SubSeq(s, 1, k + 1) \notin DOMAIN self)
    IN SubSeq(s, 1, n)

----------------------------------------------------------------------------
(* athame/lexer.py: the Lexer.  A text is the sequence of its characters; the *)
(* Lexer object holds the unread part of its source, the line being read, the *)
(* current character, lineno, column, the token made last and the position    *)
(* marked last; error is the LexerError raised, if any *)

None == "None"
NoToken == [type |-> None]
NoPosition == [marked |-> FALSE]
NoError == [raised |-> "none"]
NoExpected == [given |-> FALSE, chars |-> <<>>]
Expected(chars) == [given |-> TRUE, chars |-> chars]

Position(column, lineno) == [column |-> column, lineno |-> lineno]
PositionedToken(type, lexeme, position) ==
    [type |-> type, lexeme |-> lexeme, position |-> position]

HOUR_STARTS == <<"0", "1", "2">>
HOUR_ENDS == <<"0", "1", "2", "3", "4", "5", "6", "7", "8", "9">>
HOUR_ENDS_2X == <<"0", "1", "2", "3">>
MINUTE_STARTS == <<"0", "1", "2", "3", "4", "5">>
MINUTE_ENDS == <<"0", "1", "2", "3", "4", "5", "6", "7", "8", "9">>
DAYS_OF_WEEK ==
    <<<<"s", "u", "n", "d", "a", "y">>,
      <<"s", "u", "n">>,
      <<"m", "o", "n", "d", "a", "y">>,
      <<"m", "o", "n">>,
      <<"t", "u", "e", "s", "d", "a", "y">>,
      <<"t", "u", "e">>,
      <<"w", "e", "d", "n", "e", "s", "d", "a", "y">>,
      <<"w", "e", "d">>,
      <<"t", "h", "u", "r", "s", "d", "a", "y">>,
      <<"t", "h", "u">>,
      <<"f", "r", "i", "d", "a", "y">>,
      <<"f", "r", "i">>,
      <<"s", "a", "t", "u", "r", "d", "a", "y">>,
      <<"s", "a", "t">>>>
KEYWORDS == from_strings(<<<<"a", "l", "l", "o", "w">>, <<"f", "o", "r", "b", "i", "d">>>> \o DAYS_OF_WEEK)

whitespace == {" ", "\t", "\f"}
end_of_line == "\n"
ascii_letters == LowerCase \o UpperCase

\* char in tuple, char in string
in_seq(char, seq) == \E k \in 1..Len(seq) : seq[k] = char

\* source.readline(): the text up to and including the first line break, or
\* all of it when there is none; "" at the end of the text
readline(text) ==
    IF \E k \in 1..Len(text) : text[k] = "\n"
    THEN LET k == CHOOSE k \in 1..Len(text) :
                      text[k] = "\n" /\ \A j \in 1..(k - 1) : text[j] # "\n"
         IN [line |-> SubSeq(text, 1, k), rest |-> SubSeq(text, k + 1, Len(text))]
    ELSE [line |-> text, rest |-> <<>>]

\* Lexer.next_char
next_char(self) ==
    IF self.line = <<>>
    THEN [self EXCEPT !.column = 0, !.char = None]
    ELSE IF self.column + 1 >= Len(self.line)
    THEN [self EXCEPT !.char = end_of_line, !.column = @ + 1]
    ELSE [self EXCEPT !.column = @ + 1, !.char = self.line[self.column + 2]]

\* next_line without the count of the line
next_line_same_lineno(self) ==
    next_char([self EXCEPT !.line = readline(self.source).line,
                           !.source = readline(self.source).rest,
                           !.column = 0 - 1])

\* Lexer.next_line
next_line(self) ==
    next_char([self EXCEPT !.line = readline(self.source).line,
                           !.source = readline(self.source).rest,
                           !.column = 0 - 1,
                           !.lineno = @ + 1])

\* Lexer.__init__ on the text string (Lexer.from_string)
Lexer(string) ==
    next_char([source |-> readline(string).rest,
               line |-> readline(string).line,
               char |-> None,
               lineno |-> 0,
               column |-> 0 - 1,
               token |-> NoToken,
               position |-> NoPosition,
               error |-> NoError])

\* Lexer.skip_whitespace
RECURSIVE skip_whitespace(_)
skip_whitespace(self) ==
    IF self.char \in whitespace \/ self.char = end_of_line
    THEN IF self.char = end_of_line
         THEN skip_whitespace(next_line(self))
         ELSE skip_whitespace(next_char(self))
    ELSE self

\* Lexer.mark_position
mark_position(self) == [self EXCEPT !.position = Position(self.column, self.lineno)]

\* the layout of a rendered diagnostic
MaxLineChars == 80
ArrowColumn == 39
PaddingLen == 5

max(a, b) == IF a >= b THEN a ELSE b
min(a, b) == IF a <= b THEN a ELSE b

\* string[a : b] for 0 <= a <= b: the characters at indices a .. b - 1 that exist
slice(string, a, b) == SubSeq(string, min(a, Len(string)) + 1, min(b, Len(string)))

\* string.rstrip(chars): without its trailing characters that are among chars
RECURSIVE rstrip(_, _)
rstrip(string, chars) ==
    IF string # <<>> /\ in_seq(string[Len(string)], chars)
    THEN rstrip(SubSeq(string, 1, Len(string) - 1), chars)
    ELSE string

\* " " * n
spaces(n) == [k \in 1..n |-> " "]

\* build_error_string with the arrow preferred at the centre of the window
build_error_string_centered(self, column) ==
    LET col_start == max(0, column - MaxLineChars \div 2)
        line_part == rstrip(slice(self.line, col_start, col_start + MaxLineChars),
                            <<end_of_line>>)
        arrow_part == spaces(column - col_start) \o <<"^">>
        padding == spaces(PaddingLen)
    IN padding \o line_part \o <<"\n">> \o padding \o arrow_part

\* Lexer.build_error_string: the two lines of the diagnostic, as one string
build_error_string(self, column) ==
    LET col_start == max(0, column - ArrowColumn)
        line_part == rstrip(slice(self.line, col_start, col_start + MaxLineChars),
                            <<end_of_line>>)
        arrow_part == spaces(column - col_start) \o <<"^">>
        padding == spaces(PaddingLen)
    IN padding \o line_part \o <<"\n">> \o padding \o arrow_part

\* Lexer.build_position_error_string
build_position_error_string(self) == build_error_string(self, self.position.column)

\* Lexer.unexpected_char_error: the LexerError raised, with the line and the
\* column its message names, the rendered line and arrow, and the characters
\* it lists
unexpected_char_error(self, expected, offset) ==
    [self EXCEPT !.error = [raised |-> "LexerError",
                            lineno |-> self.lineno,
                            column |-> self.column + offset,
                            rendered |-> build_error_string(self, self.column + offset),
                            expected |-> expected]]

is_ascii_identifier_start(char) == in_seq(char, ascii_letters)
is_hour_start(char) == in_seq(char, HOUR_STARTS)
\* is_hour_end without the narrower second digit after "2"
is_hour_end_any(char, hour) == in_seq(char, HOUR_ENDS)
is_hour_end(char, hour) ==
    IF hour = <<"2">> THEN in_seq(char, HOUR_ENDS_2X) ELSE in_seq(char, HOUR_ENDS)
is_minute_start(char) == in_seq(char, MINUTE_STARTS)
is_minute_end(char) == in_seq(char, MINUTE_ENDS)

\* a method's outcome: the Lexer after it and the string it returns
Returns(self, value) == [lexer |-> self, value |-> value]

\* Lexer.hour_partial
hour_partial(self) ==
    LET buffer == <<self.char>>
        s1 == next_char(self)
    IN IF ~is_hour_end(s1.char, buffer)
       THEN Returns(unexpected_char_error(
                        s1, Expected(IF buffer = <<"2">> THEN HOUR_ENDS_2X ELSE HOUR_ENDS), 0),
                    buffer)
       ELSE Returns(next_char(s1), buffer \o <<s1.char>>)

\* Lexer.minute_partial
minute_partial(self) ==
    IF ~is_minute_start(self.char)
    THEN Returns(unexpected_char_error(self, Expected(MINUTE_STARTS), 0), <<>>)
    ELSE LET buffer == <<self.char>>
             s1 == next_char(self)
         IN IF ~is_minute_end(s1.char)
            THEN Returns(unexpected_char_error(s1, Expected(MINUTE_ENDS), 0), buffer)
            ELSE Returns(next_char(s1), buffer \o <<s1.char>>)

\* Lexer.time_token
time_token(self) ==
    the({IF h.lexer.error.raised # "none" THEN h.lexer
         ELSE the({IF m.lexer.error.raised # "none" THEN m.lexer
                   ELSE [m.lexer EXCEPT !.token =
                            PositionedToken("TIME", h.value \o m.value, self.position)] :
                       m \in {minute_partial(h.lexer)}}) :
             h \in {hour_partial(self)}})

\* the loop of extract_ascii_identifier
RECURSIVE skip_ascii_letters(_)
skip_ascii_letters(self) ==
    IF self.char # None /\ in_seq(self.char, ascii_letters)
    THEN skip_ascii_letters(next_char(self))
    ELSE self

\* Lexer.extract_ascii_identifier: line[start : column]
extract_ascii_identifier(self) ==
    the({Returns(s1, SubSeq(self.line, self.column + 1, s1.column)) :
             s1 \in {skip_ascii_letters(self)}})

\* the classification comparing the lexeme as spelled
keyword_token_case_sensitive(self, lexeme) ==
    IF lexeme = <<"a", "l", "l", "o", "w">>
    THEN [self EXCEPT !.token = PositionedToken("ALLOW", lexeme, self.position)]
    ELSE IF lexeme = <<"f", "o", "r", "b", "i", "d">>
    THEN [self EXCEPT !.token = PositionedToken("FORBID", lexeme, self.position)]
    ELSE IF in_seq(lexeme, DAYS_OF_WEEK)
    THEN [self EXCEPT !.token = PositionedToken("DAY_OF_WEEK", lexeme, self.position)]
    ELSE self

\* the classification of a lexeme that is in KEYWORDS
keyword_token(self, lexeme) ==
    IF lower(lexeme) = <<"a", "l", "l", "o", "w">>
    THEN [self EXCEPT !.token = PositionedToken("ALLOW", lexeme, self.position)]
    ELSE IF lower(lexeme) = <<"f", "o", "r", "b", "i", "d">>
    THEN [self EXCEPT !.token = PositionedToken("FORBID", lexeme, self.position)]
    ELSE IF in_seq(lower(lexeme), DAYS_OF_WEEK)
    THEN [self EXCEPT !.token = PositionedToken("DAY_OF_WEEK", lexeme, self.position)]
    ELSE self

\* identifier_token reporting every failure just past the run
identifier_token_no_offset(self, e) ==
    IF ~trie_contains(KEYWORDS, e.value)
    THEN IF contains_prefix(KEYWORDS, e.value)
         THEN unexpected_char_error(
                  e.lexer, Expected(chars_after(KEYWORDS, e.value)), 0)
         ELSE unexpected_char_error(e.lexer, NoExpected, 0)
    ELSE keyword_token(e.lexer, e.value)

\* the token of the letter run e.value, with the Lexer e.lexer just past it
identifier_token(self, e) ==
    IF ~trie_contains(KEYWORDS, e.value)
    THEN IF contains_prefix(KEYWORDS, e.value)
         THEN unexpected_char_error(
                  e.lexer, Expected(chars_after(KEYWORDS, e.value)), 0)
         ELSE unexpected_char_error(
                  e.lexer, NoExpected, Len(max_match_for(KEYWORDS, e.value)) - Len(e.value))
    ELSE keyword_token(e.lexer, e.value)

\* Lexer.allow_or_forbid_or_day_of_week_token
allow_or_forbid_or_day_of_week_token(self) ==
    the({identifier_token(self, e) : e \in {extract_ascii_identifier(self)}})

\* the token for the current character, after skip_whitespace and mark_position
dispatch(self) ==
    IF self.char = None
    THEN [next_char(self) EXCEPT !.token =
             PositionedToken("END_INPUT", <<>>, self.position)]
    ELSE IF is_ascii_identifier_start(self.char)
    THEN allow_or_forbid_or_day_of_week_token(self)
    ELSE IF is_hour_start(self.char)
    THEN time_token(self)
    ELSE IF self.char = "-"
    THEN [next_char(self) EXCEPT !.token =
             PositionedToken("DASH", <<"-">>, self.position)]
    ELSE self

\* Lexer.next_token
next_token(self) ==
    the({IF t.error.raised = "none" /\ t.token.type = None
         THEN unexpected_char_error(t, NoExpected, 0)
         ELSE t :
             t \in {dispatch(mark_position(skip_whitespace([self EXCEPT !.token = NoToken])))}})

----------------------------------------------------------------------------
(* athame/parser.py *)

\* the outcome of a parsing method: its value and the index of the token the
\* Lexer then holds, or the ParserError raised by unexpected_token
Parsed(value, i) == [raised |-> "none", value |-> value, i |-> i]
unexpected_token(src, i, expected) ==
    [raised |-> "ParserError", expected |-> expected, got |-> token_at(src, i).type, i |-> i]

dow_int_map ==
    <<"s", "u", "n", "d", "a", "y">> :> 0 @@
    <<"s", "u", "n">> :> 0 @@
    <<"m", "o", "n", "d", "a", "y">> :> 1 @@
    <<"m", "o", "n">> :> 1 @@
    <<"t", "u", "e", "s", "d", "a", "y">> :> 2 @@
    <<"t", "u", "e">> :> 2 @@
    <<"w", "e", "d", "n", "e", "s", "d", "a", "y">> :> 3 @@
    <<"w", "e", "d">> :> 3 @@
    <<"t", "h", "u", "r", "s", "d", "a", "y">> :> 4 @@
    <<"t", "h", "u">> :> 4 @@
    <<"f", "r", "i", "d", "a", "y">> :> 5 @@
    <<"f", "r", "i">> :> 5 @@
    <<"s", "a", "t", "u", "r", "d", "a", "y">> :> 6 @@
    <<"s", "a", "t">> :> 6

\* the loop of parse_days stopping before last_day is appended
RECURSIVE expand_days_exclusive(_, _, _)
expand_days_exclusive(days, next_day, last_day) ==
    IF days[Len(days)] # last_day /\ next_day # last_day
    THEN expand_days_exclusive(Append(days, next_day), (next_day + 1) % DaysPerWeek, last_day)
    ELSE days

\* the loop of parse_days: append next_day until the last element is last_day
RECURSIVE expand_days(_, _, _)
expand_days(days, next_day, last_day) ==
    IF days[Len(days)] # last_day
    THEN expand_days(Append(days, next_day), (next_day + 1) % DaysPerWeek, last_day)
    ELSE days

\* Parser.parse_days
parse_days(src, i) ==
    IF token_at(src, i).type # "DAY_OF_WEEK"
    THEN unexpected_token(src, i, <<"DAY_OF_WEEK">>)
    ELSE LET days == <<dow_int_map[lower(token_at(src, i).lexeme)]>>
         IN IF token_at(src, i + 1).type = "DASH"
            THEN IF token_at(src, i + 2).type # "DAY_OF_WEEK"
                 THEN unexpected_token(src, i + 2, <<"DAY_OF_WEEK">>)
                 ELSE LET last_day == dow_int_map[lower(token_at(src, i + 2).lexeme)]
                          next_day == (days[1] + 1) % DaysPerWeek
                      IN Parsed(expand_days(days, next_day, last_day), i + 3)
            ELSE Parsed(days, i + 1)

\* parse_interval taking a TIME for a whole interval whatever follows it
parse_interval_time_alone(src, i) ==
    IF token_at(src, i).type = "TIME"
    THEN Parsed(Interval(from_string(token_at(src, i).lexeme), end_of_day), i + 1)
    ELSE IF token_at(src, i).type = "DASH"
    THEN IF token_at(src, i + 1).type # "TIME"
         THEN unexpected_token(src, i + 1, <<"TIME">>)
         ELSE Parsed(Interval(start_of_day, from_string(token_at(src, i + 1).lexeme)), i + 2)
    ELSE unexpected_token(src, i, <<"TIME", "DASH">>)

\* parse_interval putting the earlier of the two times of TIME '-' TIME first
parse_interval_ordered(src, i) ==
    IF token_at(src, i).type = "TIME"
    THEN LET start == from_string(token_at(src, i).lexeme)
         IN IF token_at(src, i + 1).type = "DASH"
            THEN IF token_at(src, i + 2).type # "TIME"
                 THEN unexpected_token(src, i + 2, <<"TIME">>)
                 ELSE LET end == from_string(token_at(src, i + 2).lexeme)
                      IN IF end.hour < start.hour
                            \/ (end.hour = start.hour /\ end.minute < start.minute)
                         THEN Parsed(Interval(end, start), i + 3)
                         ELSE Parsed(Interval(start, end), i + 3)
            ELSE Parsed(Interval(start, end_of_day), i + 1)
    ELSE IF token_at(src, i).type = "DASH"
    THEN IF token_at(src, i + 1).type # "TIME"
         THEN unexpected_token(src, i + 1, <<"TIME">>)
         ELSE Parsed(Interval(start_of_day, from_string(token_at(src, i + 1).lexeme)), i + 2)
    ELSE unexpected_token(src, i, <<"TIME", "DASH">>)

\* Parser.parse_interval
parse_interval(src, i) ==
    IF token_at(src, i).type = "TIME"
    THEN LET start == from_string(token_at(src, i).lexeme)
         IN IF token_at(src, i + 1).type = "DASH"
            THEN IF token_at(src, i + 2).type # "TIME"
                 THEN unexpected_token(src, i + 2, <<"TIME">>)
                 ELSE Parsed(Interval(start, from_string(token_at(src, i + 2).lexeme)), i + 3)
            ELSE Parsed(Interval(start, end_of_day), i + 1)
    ELSE IF token_at(src, i).type = "DASH"
    THEN IF token_at(src, i + 1).type # "TIME"
         THEN unexpected_token(src, i + 1, <<"TIME">>)
         ELSE Parsed(Interval(start_of_day, from_string(token_at(src, i + 1).lexeme)), i + 2)
    ELSE unexpected_token(src, i, <<"TIME", "DASH">>)

\* the loop of parse_intervals: parse an interval while a TIME or a DASH follows;
\* a ParserError raised by parse_interval leaves the loop and the method
RECURSIVE more_intervals(_, _, _)
more_intervals(src, i, intervals) ==
    IF token_at(src, i).type = "TIME" \/ token_at(src, i).type = "DASH"
    THEN the({IF r.raised # "none" THEN r
              ELSE more_intervals(src, r.i, Append(intervals, r.value)) :
                  r \in {parse_interval(src, i)}})
    ELSE Parsed(intervals, i)

\* parse_intervals made of its loop alone: no first interval is required
parse_intervals_optional(src, i) == more_intervals(src, i, <<>>)

\* Parser.parse_intervals
parse_intervals(src, i) ==
    the({IF r.raised # "none" THEN r ELSE more_intervals(src, r.i, <<r.value>>) :
             r \in {parse_interval(src, i)}})

\* Parser.parse_agenda
parse_agenda(src, i) ==
    IF token_at(src, i).type = "ALLOW"
    THEN the({IF r.raised # "none" THEN r ELSE Parsed(Agenda(r.value, "ALLOW"), r.i) :
                  r \in {parse_intervals(src, i + 1)}})
    ELSE IF token_at(src, i).type = "FORBID"
    THEN the({IF r.raised # "none" THEN r ELSE Parsed(Agenda(r.value, "FORBID"), r.i) :
                  r \in {parse_intervals(src, i + 1)}})
    ELSE unexpected_token(src, i, <<"ALLOW", "FORBID">>)

\* the loop of parse_agendas: parse an agenda while an ALLOW or a FORBID follows
RECURSIVE more_agendas(_, _, _)
more_agendas(src, i, agendas) ==
    IF token_at(src, i).type \in {"ALLOW", "FORBID"}
    THEN the({IF r.raised # "none" THEN r
              ELSE more_agendas(src, r.i, Append(agendas, r.value)) :
                  r \in {parse_agenda(src, i)}})
    ELSE Parsed(agendas, i)

\* Parser.parse_agendas
parse_agendas(src, i) ==
    the({IF r.raised # "none" THEN r ELSE more_agendas(src, r.i, <<r.value>>) :
             r \in {parse_agenda(src, i)}})

\* Schedule.add_agendas_on_days
RECURSIVE add_agendas_on_days(_, _, _)
add_agendas_on_days(self, agendas, days) ==
    IF agendas = <<>> THEN self
    ELSE add_agendas_on_days(add_agenda_on_days(self, Head(agendas), days), Tail(agendas), days)

\* the agendas of one round of parse_schedule, added to the schedule on days d
parse_group_agendas(src, d, sched) ==
    the({IF a.raised # "none" THEN a
         ELSE Parsed(add_agendas_on_days(sched, a.value, d.value), a.i) :
             a \in {parse_agendas(src, d.i)}})

\* one round of parse_schedule: days, agendas, then add them to the schedule
parse_group(src, i, sched) ==
    the({IF d.raised # "none" THEN d ELSE parse_group_agendas(src, d, sched) :
             d \in {parse_days(src, i)}})

\* a parse_schedule whose loop is never entered
more_groups_none(src, i, sched) == Parsed(sched, i)

\* the loop of parse_schedule: another round while a DAY_OF_WEEK follows
RECURSIVE more_groups(_, _, _)
more_groups(src, i, sched) ==
    IF token_at(src, i).type = "DAY_OF_WEEK"
    THEN the({IF r.raised # "none" THEN r ELSE more_groups(src, r.i, r.value) :
                  r \in {parse_group(src, i, sched)}})
    ELSE Parsed(sched, i)

\* Parser.parse_schedule, on a new Schedule()
parse_schedule(src, i) ==
    the({IF r.raised # "none" THEN r ELSE more_groups(src, r.i, r.value) :
             r \in {parse_group(src, i, [allowed |-> <<>>, forbidden |-> <<>>, tz |-> 0])}})

\* Parser.parse: read the first token, then parse_schedule
parse(src) == parse_schedule(src, 1)

----------------------------------------------------------------------------
(* The Parser on a Lexer (athame/__init__.py).  The Parser reads its tokens *)
(* by calling next_token; a LexerError raised by a call leaves the Parser,  *)
(* which catches nothing                                                    *)

\* what the Parser gets from a next_token call that raises
RaisedToken(error) == [type |-> "LexerError", lexeme |-> <<>>, error |-> error]

\* the Lexer after each of the successive next_token calls made on self, up to
\* the call that returns END_INPUT or raises
RECURSIVE next_tokens(_)
next_tokens(self) ==
    the({IF s.error.raised # "none" \/ s.token.type = "END_INPUT"
         THEN <<s>>
         ELSE <<s>> \o next_tokens(s) :
             s \in {next_token(self)}})

\* the outcomes of those calls, in order
token_stream(run) ==
    [k \in 1..Len(run) |->
        IF run[k].error.raised = "none" THEN run[k].token ELSE RaisedToken(run[k].error)]

\* the message of Parser.unexpected_token, raised with the Lexer as self holds
\* it: the line and column it states, the rendered line and arrow, the
\* expected token types and the type got
parser_error(self, r) ==
    [raised |-> "ParserError",
     lineno |-> self.lineno,
     column |-> self.column,
     rendered |-> build_position_error_string(self),
     expected |-> r.expected,
     got |-> r.got,
     calls |-> r.i]

\* parse_outcome of a Parser that is handed the tokens of the whole text
parse_outcome_whole_text(run, r) ==
    IF run[Len(run)].error.raised # "none"
    THEN [ret |-> [raised |-> "LexerError", error |-> run[Len(run)].error, calls |-> Len(run)],
          lexer |-> run[Len(run)]]
    ELSE IF r.raised # "none"
    THEN [ret |-> parser_error(run[r.i], r), lexer |-> run[r.i]]
    ELSE [ret |-> [raised |-> "none", value |-> r.value, calls |-> r.i], lexer |-> run[r.i]]

\* Parser(lexer).parse() with a Lexer that gives the outcomes of run: the
\* Schedule returned or the error raised, the number of next_token calls made
\* and the Lexer as the Parser leaves it.  r is what the Parser does on the
\* outcomes; it has made r.i calls, and when the last of its calls raised, the
\* LexerError is the outcome
parse_outcome(run, r) ==
    IF r.i >= Len(run) /\ run[Len(run)].error.raised # "none"
    THEN [ret |-> [raised |-> "LexerError", error |-> run[Len(run)].error, calls |-> Len(run)],
          lexer |-> run[Len(run)]]
    ELSE IF r.raised # "none"
    THEN [ret |-> parser_error(run[r.i], r), lexer |-> run[r.i]]
    ELSE [ret |-> [raised |-> "none", value |-> r.value, calls |-> r.i], lexer |-> run[r.i]]

\* Parser(self).parse()
parse_lexer(self) ==
    the({parse_outcome(run, parse(token_stream(run))) : run \in {next_tokens(self)}})

\* from_dsl(string, tz)
from_dsl(string, tz) ==
    the({IF p.ret.raised = "none" THEN [p EXCEPT !.ret.value.tz = tz] ELSE p :
             p \in {parse_lexer(Lexer(string))}})

----------------------------------------------------------------------------
(* Inputs *)

\* UTC offsets of the zones used, in seconds: UTC, UTC-05:00, UTC+05:30
TzOffsets == {0, 0 - 5 * SecPerHour, 5 * SecPerHour + 30 * SecPerMinute}

\* the timestamp whose local time in zone tz is week w, weekday d, h:m:s
Moment(w, d, h, m, s, tz) ==
    [inst |-> w * SecPerWeek + d * SecPerDay + h * SecPerHour
                  + m * SecPerMinute + s - tz,
     tz |-> tz]

Days == 0..(DaysPerWeek - 1)

NoSchedule == [allowed |-> <<>>, forbidden |-> <<>>, tz |-> 0]
NoWeekdayInterval == WeekdayInterval(0, Interval(start_of_day, start_of_day))
NoCall == [op |-> "none"]
NoLexer == Lexer(<<>>)
NoTrie == Trie

----------------------------------------------------------------------------
(* A WeekdayInterval used on its own *)

WdiTimes == {Time(0, 0), Time(2, 15), Time(2, 45), Time(14, 45), Time(23, 59)}
WdiIntervals == {Interval(s, e) : s \in WdiTimes, e \in WdiTimes}
WdiMomentTimes ==
    {Time(0, 0), Time(2, 14), Time(2, 15), Time(2, 30), Time(2, 46),
     Time(8, 30), Time(14, 45), Time(14, 46), Time(23, 59)}
WdiMoments ==
    {Moment(1, d, t.hour, t.minute, s, tz) :
        d \in Days, t \in WdiMomentTimes, s \in {0, 30}, tz \in {0, 0 - 5 * SecPerHour}}

InitWdi ==
    /\ schedule = NoSchedule
    /\ weekday_interval \in
           {WeekdayInterval(d, i) : d \in Days, i \in WdiIntervals}
    /\ source = <<>>
    /\ written = <<>>
    /\ now \in WdiMoments
    /\ lexer = NoLexer
    /\ trie = NoTrie
    /\ added = {}
    /\ call = NoCall

Contains ==
    /\ call' = [op |-> "contains", ret |-> contains(weekday_interval, now)]
    /\ UNCHANGED <<schedule, weekday_interval, source, written, now, lexer, trie, added>>

NextStartAfter ==
    /\ call' = [op |-> "next_start_after",
                ret |-> next_start_after(weekday_interval, now)]
    /\ UNCHANGED <<schedule, weekday_interval, source, written, now, lexer, trie, added>>

NextEndAfter ==
    /\ call' = [op |-> "next_end_after",
                ret |-> next_end_after(weekday_interval, now)]
    /\ UNCHANGED <<schedule, weekday_interval, source, written, now, lexer, trie, added>>

NextWdi ==
    \/ Contains
    \/ NextStartAfter
    \/ NextEndAfter

SpecWdi == InitWdi /\ [][NextWdi]_vars

----------------------------------------------------------------------------
(* Properties of a WeekdayInterval *)

\* a <= b as times of day: hour first, then minute
TimeLe(a, b) == a.hour < b.hour \/ (a.hour = b.hour /\ a.minute <= b.minute)
TimeOfDay(dt) == Time(dt_hour(dt), dt_minute(dt))
\* the local calendar date of a timestamp, as a day number
DateOf(dt) == Local(dt) \div SecPerDay
\* dt is an occurrence of time-of-day t on weekday d, to the second
OccurrenceOf(dt, d, t) ==
    /\ dt_day_of_week(dt) = d
    /\ TimeOfDay(dt) = t
    /\ dt_second(dt) = 0

\* C5: a WeekdayInterval, whatever the order of its start and end, contains
\* dt exactly when dt's weekday is the interval's day and dt's (hour, minute)
\* lies in [start, end], compared hour first, then minute.
C5_ContainsIffWithinStartEnd ==
    call.op = "contains" =>
        (call.ret <=>
            /\ weekday_interval.day_of_week = dt_day_of_week(now)
            /\ TimeLe(weekday_interval.interval.start, TimeOfDay(now))
            /\ TimeLe(TimeOfDay(now), weekday_interval.interval.end))

\* C6: next_start_after(moment) is the earliest occurrence of the interval's
\* start on the interval's weekday at or after moment: today when moment is on
\* that weekday and the start has not passed, exactly 7 days later when it has
\* passed, and otherwise 1 to 6 days ahead.
C6_NextStartIsEarliestOccurrence ==
    call.op = "next_start_after" =>
        LET r == call.ret
            wdi == weekday_interval
            ahead == DateOf(r) - DateOf(now)
            today == dt_at(now, wdi.interval.start.hour, wdi.interval.start.minute)
        IN /\ OccurrenceOf(r, wdi.day_of_week, wdi.interval.start)
           /\ r.inst >= now.inst
           /\ r.inst - SecPerWeek < now.inst
           /\ IF dt_day_of_week(now) = wdi.day_of_week
              THEN IF today.inst >= now.inst THEN ahead = 0 ELSE ahead = DaysPerWeek
              ELSE ahead \in 1..(DaysPerWeek - 1)

\* the start has passed today and the result is the occurrence 7 days later
C6_Witness ==
    /\ call.op = "next_start_after"
    /\ dt_day_of_week(now) = weekday_interval.day_of_week
    /\ TimeOfDay(now) = weekday_interval.interval.start
    /\ dt_second(now) > 0
    /\ call.ret.inst = now.inst - dt_second(now) + SecPerWeek

\* C7: next_end_after(moment) is the earliest timestamp strictly after moment
\* that is one minute past an occurrence of the interval's end on the
\* interval's weekday; a moment equal to today's end plus one minute rolls to
\* the occurrence 7 days later.
C7_NextEndIsEarliestMinuteAfterEnd ==
    call.op = "next_end_after" =>
        LET r == call.ret
            wdi == weekday_interval
        IN /\ OccurrenceOf(dt_add_minutes(r, 0 - 1), wdi.day_of_week, wdi.interval.end)
           /\ r.inst > now.inst
           /\ r.inst - SecPerWeek <= now.inst
           /\ (OccurrenceOf(dt_add_minutes(now, 0 - 1), wdi.day_of_week, wdi.interval.end)
                  => r.inst = now.inst + SecPerWeek)

\* the moment is exactly one minute past today's end, and the result is 7
\* days later
C7_Witness ==
    /\ call.op = "next_end_after"
    /\ dt_day_of_week(now) = weekday_interval.day_of_week
    /\ OccurrenceOf(dt_add_minutes(now, 0 - 1),
                    weekday_interval.day_of_week, weekday_interval.interval.end)
    /\ call.ret.inst = now.inst + SecPerWeek

----------------------------------------------------------------------------
(* A Schedule built by add_agenda_on_days and queried at a moment *)

MaxEntries == 3

SchedTz == {5 * SecPerHour + 30 * SecPerMinute}
SchedIntervals ==
    {Interval(Time(0, 0), Time(23, 59)),
     Interval(Time(2, 15), Time(14, 30)),
     Interval(Time(14, 30), Time(2, 15))}
SchedIntervalLists ==
    {<<i>> : i \in SchedIntervals} \cup {<<i, j>> : i \in SchedIntervals, j \in SchedIntervals}
SchedDayLists == {<<0>>, <<6, 0>>}
SchedMomentTimes ==
    {Time(0, 0), Time(2, 0), Time(2, 15), Time(14, 30), Time(14, 31), Time(23, 59)}
SchedMoments ==
    {Moment(1, d, t.hour, t.minute, s, tz) :
        d \in {0, 1, 6}, t \in SchedMomentTimes, s \in {0, 30},
        tz \in {0, 5 * SecPerHour + 30 * SecPerMinute}}

Init ==
    /\ schedule \in {[allowed |-> <<>>, forbidden |-> <<>>, tz |-> tz] : tz \in SchedTz}
    /\ weekday_interval = NoWeekdayInterval
    /\ source = <<>>
    /\ written = <<>>
    /\ now \in SchedMoments
    /\ lexer = NoLexer
    /\ trie = NoTrie
    /\ added = {}
    /\ call = NoCall

AddAgendaOnDays(agenda, days) ==
    /\ Len(schedule.allowed) + Len(schedule.forbidden)
           + Len(agenda.intervals) * Len(days) <= MaxEntries
    /\ schedule' = add_agenda_on_days(schedule, agenda, days)
    /\ call' = [op |-> "add_agenda_on_days"]
    /\ UNCHANGED <<weekday_interval, source, written, now, lexer, trie, added>>

AlwaysAllowed(tz) ==
    /\ schedule' = always_allowed(tz)
    /\ call' = [op |-> "always_allowed", tz |-> tz]
    /\ UNCHANGED <<weekday_interval, source, written, now, lexer, trie, added>>

IsAllowedAt ==
    /\ call' = [op |-> "is_allowed_at", ret |-> is_allowed_at(schedule, now)]
    /\ UNCHANGED <<schedule, weekday_interval, source, written, now, lexer, trie, added>>

NextMomentAllowedAfter ==
    /\ call' = [op |-> "next_moment_allowed_after",
                ret |-> next_moment_allowed_after(schedule, now)]
    /\ UNCHANGED <<schedule, weekday_interval, source, written, now, lexer, trie, added>>

\* the clock during a call: it reads now, and a minute later if read again
Clock == <<now, dt_add_minutes(now, 1)>>

IsAllowedAtOrRaise ==
    /\ call' = [op |-> "is_allowed_at_or_raise", ret |-> is_allowed_at_or_raise(schedule, now)]
    /\ UNCHANGED <<schedule, weekday_interval, source, written, now, lexer, trie, added>>

IsAllowedNow ==
    /\ call' = [op |-> "is_allowed_now", ret |-> is_allowed_now(schedule, Clock)]
    /\ UNCHANGED <<schedule, weekday_interval, source, written, now, lexer, trie, added>>

IsAllowedNowOrRaise ==
    /\ call' = [op |-> "is_allowed_now_or_raise",
                ret |-> is_allowed_now_or_raise(schedule, Clock)]
    /\ UNCHANGED <<schedule, weekday_interval, source, written, now, lexer, trie, added>>

SleepUntilAllowed ==
    /\ call' = [op |-> "sleep_until_allowed", ret |-> sleep_until_allowed(schedule, Clock)]
    /\ UNCHANGED <<schedule, weekday_interval, source, written, now, lexer, trie, added>>

Next ==
    \/ \E intervals \in SchedIntervalLists, directive \in Directive, days \in SchedDayLists :
           AddAgendaOnDays(Agenda(intervals, directive), days)
    \/ \E tz \in TzOffsets : AlwaysAllowed(tz)
    \/ IsAllowedAt
    \/ NextMomentAllowedAfter
    \/ IsAllowedAtOrRaise
    \/ IsAllowedNow
    \/ IsAllowedNowOrRaise
    \/ SleepUntilAllowed

Spec == Init /\ [][Next]_vars

----------------------------------------------------------------------------
(* Properties of a Schedule *)

Range(seq) == {seq[i] : i \in 1..Len(seq)}

\* the query moment converted to the schedule's timezone
NowInTz == [inst |-> now.inst, tz |-> schedule.tz]

\* the candidate set of next_moment_allowed_after: the moment, the next start
\* of each allowed entry and the next end of each forbidden entry
CandidateSet ==
    {NowInTz} \cup {next_start_after(w, NowInTz) : w \in Range(schedule.allowed)}
              \cup {next_end_after(w, NowInTz) : w \in Range(schedule.forbidden)}

AllowedCandidates == {c \in CandidateSet : is_allowed_at(schedule, c)}

Returned == call.op = "next_moment_allowed_after" /\ call.ret.raised = "none"
Failed == call.op = "next_moment_allowed_after" /\ call.ret.raised # "none"

\* C1: is_allowed_at(moment) is true exactly when the moment, converted to the
\* schedule's timezone, is contained in at least one allowed WeekdayInterval
\* and in no forbidden one; it is false whenever allowed is empty.
C1_AllowedIffInAllowedAndNotForbidden ==
    call.op = "is_allowed_at" =>
        /\ call.ret <=>
              /\ \E w \in Range(schedule.allowed) : contains(w, NowInTz)
              /\ \A w \in Range(schedule.forbidden) : ~contains(w, NowInTz)
        /\ (schedule.allowed = <<>> => call.ret = FALSE)

\* the moment is allowed although, read in its own timezone, it would not be
C1_Witness ==
    /\ call.op = "is_allowed_at"
    /\ call.ret = TRUE
    /\ now.tz # schedule.tz
    /\ schedule.forbidden # <<>>
    /\ ~is_allowed_at_own_tz(schedule, now)

\* C2: whenever next_moment_allowed_after(moment) returns r, no minute t with
\* moment <= t < r is allowed.
C2_NoAllowedMinuteBeforeResult ==
    Returned =>
        \A k \in 0..((call.ret.value.inst - now.inst) \div SecPerMinute) :
            now.inst + k * SecPerMinute < call.ret.value.inst =>
                ~is_allowed_at(schedule, [inst |-> now.inst + k * SecPerMinute, tz |-> now.tz])

\* C3: whenever next_moment_allowed_after(moment) returns r, r is at or after
\* moment, r is allowed, and r is the minimum of the candidates that are allowed.
C3_ResultIsEarliestAllowedCandidate ==
    Returned =>
        LET r == call.ret.value
        IN /\ r.inst >= now.inst
           /\ is_allowed_at(schedule, r)
           /\ r \in AllowedCandidates
           /\ \A c \in AllowedCandidates : r.inst <= c.inst

\* the result is a later candidate: the moment itself is not allowed, and some
\* allowed candidate is later than the result
C3_Witness ==
    /\ Returned
    /\ call.ret.value.inst > now.inst
    /\ \E c \in AllowedCandidates : c.inst > call.ret.value.inst
    /\ \E c \in CandidateSet \ AllowedCandidates : c.inst > now.inst

\* C4: next_moment_allowed_after fails with ScheduleError "no allowed intervals
\* in the schedule" exactly when no candidate is allowed; it fails on an empty
\* schedule and on one whose only allowed WeekdayInterval is also forbidden.
C4_FailsIffNoAllowedCandidate ==
    call.op = "next_moment_allowed_after" =>
        /\ call.ret.raised \in {"none", "ScheduleError"}
        /\ call.ret.raised = "ScheduleError" <=> AllowedCandidates = {}
        /\ call.ret.raised = "ScheduleError" => call.ret.message = NoAllowedIntervals
        /\ schedule.allowed = <<>> => call.ret.raised = "ScheduleError"
        /\ (Len(schedule.allowed) = 1 /\ schedule.allowed[1] \in Range(schedule.forbidden))
               => call.ret.raised = "ScheduleError"

\* the only allowed entry is also forbidden, and the search fails
C4_Witness ==
    /\ Failed
    /\ Len(schedule.allowed) = 1
    /\ schedule.allowed[1] \in Range(schedule.forbidden)

\* the schedule is as always_allowed made it
IsAlwaysAllowed ==
    /\ Len(schedule.allowed) = DaysPerWeek
    /\ \A d \in Days :
           schedule.allowed[d + 1] = WeekdayInterval(d, Interval(Time(0, 0), Time(23, 59)))
    /\ schedule.forbidden = <<>>

\* C18: always_allowed(tz) returns a schedule whose allowed list is the 7
\* entries day 0..6, 00:00 to 23:59, in day order, whose forbidden list is
\* empty and whose tz is the given one; on it is_allowed_at is true for every
\* moment and next_moment_allowed_after(moment) returns the moment.
C18_AlwaysAllowed ==
    /\ call.op = "always_allowed" =>
           /\ IsAlwaysAllowed
           /\ schedule.tz = call.tz
           /\ \A m \in WdiMoments \cup SchedMoments :
                  /\ is_allowed_at(schedule, m)
                  /\ next_moment_allowed_after(schedule, m).raised = "none"
                  /\ next_moment_allowed_after(schedule, m).value = in_tz(m, schedule.tz)
    /\ (IsAlwaysAllowed /\ call.op = "is_allowed_at") => call.ret = TRUE
    /\ (IsAlwaysAllowed /\ call.op = "next_moment_allowed_after") =>
           /\ call.ret.raised = "none"
           /\ call.ret.value.inst = now.inst

\* on the schedule always_allowed made, the search returned the moment asked
\* for, a moment with seconds and of another timezone than the schedule's
C18_Witness ==
    /\ IsAlwaysAllowed
    /\ call.op = "next_moment_allowed_after"
    /\ call.ret.raised = "none"
    /\ call.ret.value.inst = now.inst
    /\ dt_second(now) = 30
    /\ now.tz # schedule.tz
    /\ dt_day_of_week(now) # dt_day_of_week(NowInTz)

\* the clock's reading lies in an allowed entry and in no forbidden one
AllowedNow ==
    /\ \E w \in Range(schedule.allowed) : contains(w, NowInTz)
    /\ \A w \in Range(schedule.forbidden) : ~contains(w, NowInTz)

\* the instant d seconds after the clock's reading
After(d) == [inst |-> now.inst + d, tz |-> now.tz]

\* sleep_until_allowed read the clock once, blocked once, for the time from
\* the clock's reading to the next allowed moment, which is allowed
BlockedOnceUntilAllowed ==
    /\ call.ret.raised = "none"
    /\ call.ret.reads = 1
    /\ Len(call.ret.sleeps) = 1
    /\ call.ret.sleeps[1] = next_moment_allowed_after(schedule, now).value.inst - now.inst
    /\ is_allowed_at(schedule, After(call.ret.sleeps[1]))

\* C19 as stated: sleep_until_allowed reads the clock once; if the schedule is
\* allowed at that instant it returns without blocking, and otherwise it blocks
\* exactly once, for next_moment_allowed_after(now) - now, so that the instant
\* now + duration is allowed.
C19_SleepsOnceUntilAllowed ==
    call.op = "sleep_until_allowed" =>
        IF AllowedNow
        THEN call.ret.raised = "none" /\ call.ret.reads = 1 /\ call.ret.sleeps = <<>>
        ELSE BlockedOnceUntilAllowed

\* C19 amended: as stated when next_moment_allowed_after(now) returns; when it
\* fails, sleep_until_allowed fails with its ScheduleError, without blocking.
C19_SleepsOnceOrFails ==
    call.op = "sleep_until_allowed" =>
        IF AllowedNow
        THEN call.ret.raised = "none" /\ call.ret.reads = 1 /\ call.ret.sleeps = <<>>
        ELSE IF AllowedCandidates = {}
        THEN /\ call.ret.raised = "ScheduleError"
             /\ call.ret.message = NoAllowedIntervals
             /\ call.ret.reads = 1
             /\ call.ret.sleeps = <<>>
        ELSE BlockedOnceUntilAllowed

\* the clock reads 07:45:30 in the schedule's timezone, being of another one,
\* a forbidden entry ends at 14:30, and the call blocked once, until 14:31
C19_Witness ==
    /\ call.op = "sleep_until_allowed"
    /\ call.ret.raised = "none"
    /\ call.ret.sleeps = <<24330>>
    /\ TimeOfDay(NowInTz) = Time(7, 45)
    /\ now.tz # schedule.tz
    /\ schedule.forbidden # <<>>

\* the calls that ask whether a moment is allowed
Queries == {"is_allowed_at_or_raise", "is_allowed_now", "is_allowed_now_or_raise"}

\* the outcomes of the three queries, for the clock's reading
QueriesAnswer ==
    /\ call.op \in {"is_allowed_at_or_raise", "is_allowed_now_or_raise"} =>
           /\ call.ret.raised \in {"none", "ScheduleError"}
           /\ call.ret.raised = "ScheduleError" <=> ~AllowedNow
           /\ call.ret.raised = "ScheduleError" <=> ~is_allowed_at(schedule, now)
    /\ call.op = "is_allowed_now" =>
           /\ call.ret <=> AllowedNow
           /\ call.ret = is_allowed_at(schedule, now)

\* C20: is_allowed_at_or_raise(moment) raises a ScheduleError exactly when
\* is_allowed_at(moment) is false and returns normally, the schedule
\* unchanged, otherwise; is_allowed_now and is_allowed_now_or_raise are
\* is_allowed_at and is_allowed_at_or_raise at the clock's reading.
C20_OrRaiseIffNotAllowed ==
    /\ []QueriesAnswer
    /\ [][call'.op \in Queries => schedule' = schedule]_vars

\* is_allowed_now_or_raise has raised at a moment that lies in an allowed
\* entry and in a forbidden one
C20_Witness ==
    /\ call.op = "is_allowed_now_or_raise"
    /\ call.ret.raised = "ScheduleError"
    /\ \E w \in Range(schedule.allowed) : contains(w, NowInTz)
    /\ now.tz # schedule.tz

\* C21: when is_allowed_at_or_raise rejects a moment, the weekday and HH:MM
\* named in the error message are those of the moment as it was evaluated
\* against the schedule, that is, expressed in the schedule's timezone,
\* whatever the moment's own timezone is.
C21_MessageNamesMomentInScheduleTz ==
    (call.op = "is_allowed_at_or_raise" /\ call.ret.raised = "ScheduleError") =>
        /\ call.ret.message.day_of_week = dt_day_of_week(NowInTz)
        /\ call.ret.message.hour = dt_hour(NowInTz)
        /\ call.ret.message.minute = dt_minute(NowInTz)

\* the timestamps that denote the instant of the query moment, one in each zone
SameInstant == {[inst |-> now.inst, tz |-> tz] : tz \in TzOffsets}

\* C22: is_allowed_at and next_moment_allowed_after depend only on the instant
\* of their argument and on the schedule's timezone: moments denoting the same
\* instant in different timezones give the same is_allowed_at result and the
\* same next allowed instant, both evaluated with the weekday and time of day
\* the instant has in the schedule's timezone.
C22_DependsOnInstantOnly ==
    /\ call.op = "is_allowed_at" =>
           /\ \A m \in SameInstant : is_allowed_at(schedule, m) = call.ret
           /\ call.ret <=>
                 /\ \E w \in Range(schedule.allowed) : contains(w, NowInTz)
                 /\ \A w \in Range(schedule.forbidden) : ~contains(w, NowInTz)
    /\ call.op = "next_moment_allowed_after" =>
           /\ \A m \in SameInstant :
                  LET other == next_moment_allowed_after(schedule, m)
                  IN /\ other.raised = call.ret.raised
                     /\ other.raised = "none" => other.value.inst = call.ret.value.inst
           /\ Returned =>
                  /\ call.ret.value \in CandidateSet
                  /\ call.ret.value.tz = schedule.tz

\* the search has returned a later instant for a moment whose weekday in its
\* own zone is not its weekday in the schedule's zone
C22_Witness ==
    /\ Returned
    /\ now.tz # schedule.tz
    /\ dt_day_of_week(now) # dt_day_of_week(NowInTz)
    /\ call.ret.value.inst > now.inst
    /\ schedule.forbidden # <<>>

----------------------------------------------------------------------------
(* A Schedule being built: add_agenda_on_days and add_agendas_on_days, each *)
(* call recorded with the schedule it was made on and its arguments         *)

MaxAppended == 4

BuildIntervals == {Interval(Time(2, 15), Time(14, 30)), Interval(Time(14, 30), Time(2, 15))}
BuildIntervalLists ==
    {<<i>> : i \in BuildIntervals}
        \cup {<<Interval(Time(2, 15), Time(14, 30)), Interval(Time(14, 30), Time(2, 15))>>,
              <<Interval(Time(2, 15), Time(14, 30)), Interval(Time(2, 15), Time(14, 30))>>}
BuildDayLists == {<<>>, <<0>>, <<6, 0>>, <<0, 0>>}
BuildAgendas == {Agenda(iv, d) : iv \in BuildIntervalLists, d \in Directive}
BuildAgendaLists ==
    {<<>>} \cup {<<a, b>> : a \in {x \in BuildAgendas : Len(x.intervals) = 1},
                           b \in {x \in BuildAgendas : Len(x.intervals) = 1}}

\* the entries a call would append, counted
AppendedBy(agendas, days) ==
    LET RECURSIVE count(_)
        count(k) == IF k = 0 THEN 0
                    ELSE count(k - 1) + Len(agendas[k].intervals) * Len(days)
    IN count(Len(agendas))

InitBuild ==
    /\ schedule \in {[allowed |-> <<>>, forbidden |-> <<>>, tz |-> tz] : tz \in TzOffsets}
    /\ weekday_interval = NoWeekdayInterval
    /\ source = <<>>
    /\ written = <<>>
    /\ now = Moment(1, 0, 0, 0, 0, 0)
    /\ lexer = NoLexer
    /\ trie = NoTrie
    /\ added = {}
    /\ call = NoCall

AddAgenda(agenda, days) ==
    /\ Len(schedule.allowed) + Len(schedule.forbidden)
           + AppendedBy(<<agenda>>, days) <= MaxAppended
    /\ schedule' = add_agenda_on_days(schedule, agenda, days)
    /\ call' = [op |-> "add_agenda_on_days", self |-> schedule,
                agenda |-> agenda, days |-> days]
    /\ UNCHANGED <<weekday_interval, source, written, now, lexer, trie, added>>

AddAgendas(agendas, days) ==
    /\ Len(schedule.allowed) + Len(schedule.forbidden)
           + AppendedBy(agendas, days) <= MaxAppended
    /\ schedule' = add_agendas_on_days(schedule, agendas, days)
    /\ call' = [op |-> "add_agendas_on_days", self |-> schedule,
                agendas |-> agendas, days |-> days]
    /\ UNCHANGED <<weekday_interval, source, written, now, lexer, trie, added>>

NextBuild ==
    \/ \E agenda \in BuildAgendas, days \in BuildDayLists : AddAgenda(agenda, days)
    \/ \E agendas \in BuildAgendaLists, days \in BuildDayLists : AddAgendas(agendas, days)

SpecBuild == InitBuild /\ [][NextBuild]_vars

----------------------------------------------------------------------------
(* Properties of a Schedule being built *)

\* list is old with exactly n entries after it
Extends(list, old, n) ==
    /\ Len(list) = Len(old) + n
    /\ SubSeq(list, 1, Len(old)) = old

\* what one add_agenda_on_days call may do to the schedule before
OnlyAppends(before, after, agenda, days) ==
    LET n == Len(agenda.intervals) * Len(days)
    IN /\ after.tz = before.tz
       /\ agenda.directive = "ALLOW" =>
              /\ after.forbidden = before.forbidden
              /\ Extends(after.allowed, before.allowed, n)
       /\ agenda.directive = "FORBID" =>
              /\ after.allowed = before.allowed
              /\ Extends(after.forbidden, before.forbidden, n)
       /\ \A k \in 1..n :
              LET list == IF agenda.directive = "ALLOW" THEN after.allowed
                          ELSE after.forbidden
                  old == IF agenda.directive = "ALLOW" THEN before.allowed
                         ELSE before.forbidden
                  w == list[Len(old) + k]
              IN /\ \E i \in 1..Len(days) : w.day_of_week = days[i]
                 /\ \E i \in 1..Len(agenda.intervals) : w.interval = agenda.intervals[i]

\* C27: add_agenda_on_days only appends: an ALLOW agenda leaves forbidden
\* unchanged and a FORBID agenda leaves allowed unchanged, the previous
\* contents of the list it extends remain as an unchanged prefix, exactly
\* |agenda.intervals| * |days| entries are appended, duplicates included, and
\* tz is unchanged; add_agendas_on_days equals applying add_agenda_on_days to
\* each agenda in order.
C27_AddOnlyAppends ==
    /\ call.op = "add_agenda_on_days" =>
           OnlyAppends(call.self, schedule, call.agenda, call.days)
    /\ call.op = "add_agendas_on_days" =>
           /\ call.agendas = <<>> => schedule = call.self
           /\ Len(call.agendas) = 2 =>
                  schedule = add_agenda_on_days(
                                 add_agenda_on_days(call.self, call.agendas[1], call.days),
                                 call.agendas[2], call.days)

\* a FORBID agenda of one interval, on a day named twice, has appended two
\* equal entries after an equal entry that was there
C27_Witness ==
    /\ call.op = "add_agenda_on_days"
    /\ call.agenda.directive = "FORBID"
    /\ call.self.forbidden # <<>>
    /\ call.self.allowed # <<>>
    /\ Len(schedule.forbidden) = Len(call.self.forbidden) + 2
    /\ \A k \in 1..2 :
           schedule.forbidden[Len(call.self.forbidden) + k] = call.self.forbidden[1]

----------------------------------------------------------------------------
(* The search on schedules of one allowed and at most one forbidden entry, *)
(* written with start before or after end, as the parser accepts them      *)

SearchIntervals ==
    {Interval(Time(2, 15), Time(14, 30)),
     Interval(Time(14, 30), Time(2, 15)),
     Interval(Time(14, 30), Time(14, 59)),
     Interval(Time(14, 0), Time(14, 59))}
SearchForbidden == {<<>>} \cup {<<i>> : i \in SearchIntervals}
SearchDays == {0, 6}
SearchMomentTimes == {Time(0, 0), Time(2, 0), Time(3, 0), Time(14, 30), Time(15, 0)}
SearchMoments ==
    {Moment(1, d, t.hour, t.minute, s, tz) :
        d \in {0, 1, 6}, t \in SearchMomentTimes, s \in {0, 30}, tz \in {0}}

\* Schedule(tz=tz) after add_agenda_on_days of an ALLOW agenda and, when f is
\* not empty, of a FORBID agenda
SearchSchedule(a, da, f, df, tz) ==
    LET allowing == add_agenda_on_days([allowed |-> <<>>, forbidden |-> <<>>, tz |-> tz],
                                       Agenda(<<a>>, "ALLOW"), <<da>>)
    IN IF f = <<>> THEN allowing
       ELSE add_agenda_on_days(allowing, Agenda(f, "FORBID"), <<df>>)

InitSearch ==
    /\ schedule \in {SearchSchedule(a, da, f, df, tz) :
                         a \in SearchIntervals, da \in SearchDays,
                         f \in SearchForbidden, df \in SearchDays, tz \in SchedTz}
    /\ weekday_interval = NoWeekdayInterval
    /\ source = <<>>
    /\ written = <<>>
    /\ now \in SearchMoments
    /\ lexer = NoLexer
    /\ trie = NoTrie
    /\ added = {}
    /\ call = NoCall

NextSearch ==
    \/ IsAllowedAt
    \/ NextMomentAllowedAfter

SpecSearch == InitSearch /\ [][NextSearch]_vars

----------------------------------------------------------------------------
(* Properties of the search *)

\* the minutes of one week, as timestamps
MinutesOfWeek ==
    {[inst |-> k * SecPerMinute, tz |-> 0] : k \in 0..(DaysPerWeek * HoursPerDay * MinPerHour - 1)}

\* C28: next_moment_allowed_after fails with "no allowed intervals in the
\* schedule" only when the schedule permits nothing: if is_allowed_at is true
\* for at least one minute of the week, it returns an instant.
C28_FailsOnlyWhenNothingIsAllowed ==
    Failed => \A t \in MinutesOfWeek : ~is_allowed_at(schedule, t)

----------------------------------------------------------------------------
(* The Parser run on a token stream *)

\* the weekday names: their spelling and the weekday they denote
DayWords ==
    {[lexeme |-> <<"s", "u", "n", "d", "a", "y">>, day |-> 0],
     [lexeme |-> <<"s", "u", "n">>, day |-> 0],
     [lexeme |-> <<"m", "o", "n", "d", "a", "y">>, day |-> 1],
     [lexeme |-> <<"m", "o", "n">>, day |-> 1],
     [lexeme |-> <<"t", "u", "e", "s", "d", "a", "y">>, day |-> 2],
     [lexeme |-> <<"t", "u", "e">>, day |-> 2],
     [lexeme |-> <<"w", "e", "d", "n", "e", "s", "d", "a", "y">>, day |-> 3],
     [lexeme |-> <<"w", "e", "d">>, day |-> 3],
     [lexeme |-> <<"t", "h", "u", "r", "s", "d", "a", "y">>, day |-> 4],
     [lexeme |-> <<"t", "h", "u">>, day |-> 4],
     [lexeme |-> <<"f", "r", "i", "d", "a", "y">>, day |-> 5],
     [lexeme |-> <<"f", "r", "i">>, day |-> 5],
     [lexeme |-> <<"s", "a", "t", "u", "r", "d", "a", "y">>, day |-> 6],
     [lexeme |-> <<"s", "a", "t">>, day |-> 6],
     [lexeme |-> <<"S", "U", "N">>, day |-> 0],
     [lexeme |-> <<"W", "e", "d">>, day |-> 3],
     [lexeme |-> <<"S", "a", "t", "u", "r", "D", "a", "y">>, day |-> 6]}
\* the times of day: their spelling and the time they denote
TimeWords ==
    {[lexeme |-> <<"0", "0", "0", "0">>, time |-> Time(0, 0)],
     [lexeme |-> <<"0", "2", "1", "5">>, time |-> Time(2, 15)],
     [lexeme |-> <<"0", "9", "0", "7">>, time |-> Time(9, 7)],
     [lexeme |-> <<"1", "4", "3", "0">>, time |-> Time(14, 30)],
     [lexeme |-> <<"2", "3", "5", "9">>, time |-> Time(23, 59)]}

DayToken(w) == Token("DAY_OF_WEEK", w.lexeme)
TimeToken(w) == Token("TIME", w.lexeme)
DashToken == Token("DASH", <<"-">>)
AllowToken == Token("ALLOW", <<"a", "l", "l", "o", "w">>)
ForbidToken == Token("FORBID", <<"f", "o", "r", "b", "i", "d">>)
DirectiveToken(directive) == IF directive = "ALLOW" THEN AllowToken ELSE ForbidToken

DayOfLexeme(lexeme) == (CHOOSE w \in DayWords : w.lexeme = lexeme).day
TimeOfLexeme(lexeme) == (CHOOSE w \in TimeWords : w.lexeme = lexeme).time

\* a days clause alone: "a" and "a-b" for all weekday names a and b
DaySources ==
    {<<DayToken(a)>> : a \in DayWords}
        \cup {<<DayToken(a), DashToken, DayToken(b)>> : a \in DayWords, b \in DayWords}

\* an interval alone: "T", "T-T" and "-T", then whatever follows
IntervalSources ==
    LET one == {<<TimeToken(a)>> : a \in TimeWords}
                   \cup {<<TimeToken(a), DashToken, TimeToken(b)>> : a \in TimeWords, b \in TimeWords}
                   \cup {<<DashToken, TimeToken(b)>> : b \in TimeWords}
        follow == {<<>>, <<DashToken>>, <<AllowToken>>}
    IN {a \o b : a \in one, b \in follow}

\* short token streams of any shape, most of them outside the grammar
AnyTokens ==
    {DayToken(CHOOSE w \in DayWords : w.lexeme = <<"s", "u", "n">>),
     TimeToken(CHOOSE w \in TimeWords : w.lexeme = <<"0", "2", "1", "5">>), DashToken, AllowToken, ForbidToken}
AnySources ==
    {<<>>} \cup {<<a>> : a \in AnyTokens} \cup {<<a, b>> : a \in AnyTokens, b \in AnyTokens}

\* every token stream of up to MaxTokens tokens
MaxTokens == 5

RECURSIVE TokenSourcesOfLen(_)
TokenSourcesOfLen(n) ==
    IF n = 0 THEN {<<>>}
    ELSE {Append(src, a) : src \in TokenSourcesOfLen(n - 1), a \in AnyTokens}

TokenSources == UNION {TokenSourcesOfLen(n) : n \in 0..MaxTokens}

\* A schedule text as written: groups of a days clause and agendas, each agenda
\* a directive and intervals.  A days clause is one or two weekday names; an
\* interval gives a start, an end or both (<<>> for the one left out).
MaxIntervals == 2

WrittenDays ==
    {<<<<"s", "u", "n">>>>, <<<<"s", "a", "t">>, <<"m", "o", "n">>>>, <<<<"w", "e", "d">>, <<"t", "u", "e">>>>}
WrittenIntervals ==
    {[start |-> <<"0", "2", "1", "5">>, end |-> <<>>],
     [start |-> <<>>, end |-> <<"1", "4", "3", "0">>],
     [start |-> <<"1", "4", "3", "0">>, end |-> <<"0", "2", "1", "5">>]}

FirstAgenda(directive, iv) == [directive |-> directive, intervals |-> <<iv>>]

\* the texts made from text d by writing one more interval: in the last
\* agenda, in a new agenda of the last group, or in a new group.  After an
\* interval that gives only a start, "-T" would read as that interval's end.
OneMoreInterval(d) ==
    LET g == d[Len(d)]
        a == g.agendas[Len(g.agendas)]
        last == a.intervals[Len(a.intervals)]
    IN {[d EXCEPT ![Len(d)].agendas[Len(g.agendas)].intervals = Append(@, iv)] :
            iv \in {x \in WrittenIntervals : ~(last.end = <<>> /\ x.start = <<>>)}}
       \cup {[d EXCEPT ![Len(d)].agendas = Append(@, FirstAgenda(dir, iv))] :
            dir \in Directive, iv \in WrittenIntervals}
       \cup {Append(d, [days |-> ds, agendas |-> <<FirstAgenda(dir, iv)>>]) :
            ds \in WrittenDays, dir \in Directive, iv \in WrittenIntervals}

RECURSIVE TextsOfSize(_)
TextsOfSize(n) ==
    IF n = 1
    THEN {<<[days |-> ds, agendas |-> <<FirstAgenda(dir, iv)>>]>> :
            ds \in WrittenDays, dir \in Directive, iv \in WrittenIntervals}
    ELSE UNION {OneMoreInterval(d) : d \in TextsOfSize(n - 1)}

WrittenTexts == UNION {TextsOfSize(n) : n \in 1..MaxIntervals}

RECURSIVE Concat(_)
Concat(seqs) == IF seqs = <<>> THEN <<>> ELSE Head(seqs) \o Concat(Tail(seqs))

\* the token stream of a written text
RenderDays(ds) ==
    IF Len(ds) = 1 THEN <<Token("DAY_OF_WEEK", ds[1])>>
    ELSE <<Token("DAY_OF_WEEK", ds[1]), DashToken, Token("DAY_OF_WEEK", ds[2])>>
RenderInterval(iv) ==
    IF iv.end = <<>> THEN <<Token("TIME", iv.start)>>
    ELSE IF iv.start = <<>> THEN <<DashToken, Token("TIME", iv.end)>>
    ELSE <<Token("TIME", iv.start), DashToken, Token("TIME", iv.end)>>
RenderAgenda(a) ==
    <<DirectiveToken(a.directive)>>
        \o Concat([k \in 1..Len(a.intervals) |-> RenderInterval(a.intervals[k])])
RenderGroup(g) ==
    RenderDays(g.days) \o Concat([k \in 1..Len(g.agendas) |-> RenderAgenda(g.agendas[k])])
Render(d) == Concat([k \in 1..Len(d) |-> RenderGroup(d[k])])

InitParser ==
    /\ schedule = NoSchedule
    /\ weekday_interval = NoWeekdayInterval
    /\ \/ /\ written \in WrittenTexts
          /\ source = Render(written)
       \/ /\ written = <<>>
          /\ source \in DaySources \cup IntervalSources \cup AnySources \cup TokenSources
    /\ now = Moment(1, 0, 0, 0, 0, 0)
    /\ lexer = NoLexer
    /\ trie = NoTrie
    /\ added = {}
    /\ call = NoCall

ParseDays ==
    /\ call' = [op |-> "parse_days", ret |-> parse_days(source, 1)]
    /\ UNCHANGED <<schedule, weekday_interval, source, written, now, lexer, trie, added>>

ParseInterval ==
    /\ call' = [op |-> "parse_interval", ret |-> parse_interval(source, 1)]
    /\ UNCHANGED <<schedule, weekday_interval, source, written, now, lexer, trie, added>>

Parse ==
    /\ call' = [op |-> "parse", ret |-> parse(source)]
    /\ UNCHANGED <<schedule, weekday_interval, source, written, now, lexer, trie, added>>

NextParser ==
    \/ ParseDays
    \/ ParseInterval
    \/ Parse

SpecParser == InitParser /\ [][NextParser]_vars

----------------------------------------------------------------------------
(* Properties of the Parser *)

\* the days from a to b inclusive, forward modulo 7
DayRange(a, b) ==
    [k \in 1..(((b - a + DaysPerWeek) % DaysPerWeek) + 1) |-> (a + k - 1) % DaysPerWeek]

IsDay(tok) == tok.type = "DAY_OF_WEEK"
IsTime(tok) == tok.type = "TIME"
IsDash(tok) == tok.type = "DASH"
Tok(n) == token_at(source, n)

\* C8: parsing the day range "a-b" yields a, a+1 mod 7, ..., b, of length
\* ((b - a) mod 7) + 1, both endpoints included and no day repeated; a single
\* day name yields the one-element list, Sunday = 0 ... Saturday = 6.
C8_DayRangeExpansion ==
    (call.op = "parse_days" /\ IsDay(Tok(1))) =>
        LET a == DayOfLexeme(Tok(1).lexeme)
        IN IF IsDash(Tok(2))
           THEN IsDay(Tok(3)) =>
                    LET b == DayOfLexeme(Tok(3).lexeme)
                        days == call.ret.value
                    IN /\ call.ret.raised = "none"
                       /\ days = DayRange(a, b)
                       /\ Len(days) = ((b - a + DaysPerWeek) % DaysPerWeek) + 1
                       /\ days[1] = a /\ days[Len(days)] = b
                       /\ Cardinality(Range(days)) = Len(days)
                       /\ call.ret.i = 4
           ELSE /\ call.ret.raised = "none"
                /\ call.ret.value = <<a>>
                /\ call.ret.i = 2

\* "wed-tue" has been parsed to the whole week starting on Wednesday
C8_Witness ==
    /\ call.op = "parse_days"
    /\ IsDay(Tok(1)) /\ IsDash(Tok(2)) /\ IsDay(Tok(3))
    /\ DayOfLexeme(Tok(1).lexeme) = 3
    /\ DayOfLexeme(Tok(3).lexeme) = 2
    /\ call.ret.raised = "none"
    /\ call.ret.value = <<3, 4, 5, 6, 0, 1, 2>>

\* the interval an interval of the written text denotes
WrittenInterval(iv) ==
    Interval(IF iv.start = <<>> THEN Time(0, 0) ELSE TimeOfLexeme(iv.start),
             IF iv.end = <<>> THEN Time(23, 59) ELSE TimeOfLexeme(iv.end))
\* the days a days clause of the written text denotes
WrittenDayList(ds) == DayRange(DayOfLexeme(ds[1]), DayOfLexeme(ds[Len(ds)]))

\* the entries the written text d gives the list of the directive: groups in
\* order, agendas in order, intervals in order, and for each interval the days
EntriesOf(d, directive) ==
    Concat([g \in 1..Len(d) |->
        Concat([a \in 1..Len(d[g].agendas) |->
            IF d[g].agendas[a].directive # directive THEN <<>>
            ELSE Concat([v \in 1..Len(d[g].agendas[a].intervals) |->
                     LET days == WrittenDayList(d[g].days)
                     IN [k \in 1..Len(days) |->
                            WeekdayInterval(days[k],
                                WrittenInterval(d[g].agendas[a].intervals[v]))]])])])

\* C9: parsing a schedule text yields a Schedule whose allowed (forbidden)
\* list is exactly, for every group in order, every ALLOW (FORBID) agenda in
\* order, every interval of the agenda and, inside, every day of the group,
\* one WeekdayInterval of that day and interval.
C9_ParseAppendsInOrder ==
    (call.op = "parse" /\ written # <<>>) =>
        /\ call.ret.raised = "none"
        /\ call.ret.value.allowed = EntriesOf(written, "ALLOW")
        /\ call.ret.value.forbidden = EntriesOf(written, "FORBID")
        /\ call.ret.i = Len(source) + 1

\* a parsed text in which one agenda has two intervals on several days
C9_Witness ==
    /\ call.op = "parse"
    /\ written # <<>>
    /\ Len(written[1].days) = 2
    /\ Len(written[1].agendas[1].intervals) = 2
    /\ written[1].agendas[1].intervals[1] # written[1].agendas[1].intervals[2]
    /\ call.ret.raised = "none"
    /\ Len(call.ret.value.allowed) + Len(call.ret.value.forbidden) >= 4

\* C10: an interval TIME '-' TIME is the pair (start, end) as written, with no
\* reordering; a lone TIME runs from that time to 23:59; '-' TIME runs from
\* 00:00 to that time.
C10_IntervalForms ==
    call.op = "parse_interval" =>
        /\ (IsTime(Tok(1)) /\ IsDash(Tok(2)) /\ IsTime(Tok(3))) =>
               /\ call.ret.raised = "none"
               /\ call.ret.value = Interval(TimeOfLexeme(Tok(1).lexeme),
                                            TimeOfLexeme(Tok(3).lexeme))
               /\ call.ret.i = 4
        /\ (IsTime(Tok(1)) /\ ~IsDash(Tok(2))) =>
               /\ call.ret.raised = "none"
               /\ call.ret.value = Interval(TimeOfLexeme(Tok(1).lexeme), Time(23, 59))
               /\ call.ret.i = 2
        /\ (IsDash(Tok(1)) /\ IsTime(Tok(2))) =>
               /\ call.ret.raised = "none"
               /\ call.ret.value = Interval(Time(0, 0), TimeOfLexeme(Tok(2).lexeme))
               /\ call.ret.i = 3

\* "1430-0215" has been parsed to an interval whose start is later than its end
C10_Witness ==
    /\ call.op = "parse_interval"
    /\ IsTime(Tok(1)) /\ IsDash(Tok(2)) /\ IsTime(Tok(3))
    /\ call.ret.raised = "none"
    /\ call.ret.value = Interval(Time(14, 30), Time(2, 15))

----------------------------------------------------------------------------
(* The Lexer run on a text *)

\* every string of four decimal digits
FourDigits ==
    {<<Digits[a], Digits[b], Digits[c], Digits[d]>> :
        a \in 1..Len(Digits), b \in 1..Len(Digits), c \in 1..Len(Digits), d \in 1..Len(Digits)}

\* letter runs: the keywords, their proper prefixes, keywords with one more
\* letter and other words, each in lower case, capitalised and in upper case
KeywordList == <<<<"a", "l", "l", "o", "w">>, <<"f", "o", "r", "b", "i", "d">>>> \o DAYS_OF_WEEK
LowerRuns ==
    UNION {{SubSeq(KeywordList[n], 1, k) : k \in 1..Len(KeywordList[n])} :
               n \in 1..Len(KeywordList)}
        \cup {Append(KeywordList[n], c) : n \in 1..Len(KeywordList), c \in {"e", "s"}}
        \cup {<<"x">>, <<"a", "l", "x">>, <<"s", "u", "n", "d", "a", "e">>,
              <<"f", "o", "r", "b", "i", "d", "d", "e", "n">>, <<"m", "o", "o", "n">>}
UpperOf(string) ==
    [n \in 1..Len(string) |->
        UpperCase[CHOOSE k \in 1..Len(LowerCase) : LowerCase[k] = string[n]]]
Capitalised(string) == <<UpperOf(string)[1]>> \o SubSeq(string, 2, Len(string))
LetterRuns == LowerRuns \cup {UpperOf(r) : r \in LowerRuns} \cup {Capitalised(r) : r \in LowerRuns}

\* a letter run in a text: after nothing, a blank or a dash, and before
\* nothing, a blank, a line break, a dash, a digit or another character
RunTexts ==
    {before \o r \o after :
        before \in {<<>>, <<" ">>, <<"-">>}, r \in LetterRuns,
        after \in {<<>>, <<" ">>, <<"\n">>, <<"-">>, <<"0">>, <<"!">>}}

\* texts of up to MaxPieces pieces: blanks, line breaks, words, dashes and times
MaxPieces == 4

Pieces ==
    {<<" ">>, <<"\t">>, <<"\n">>, <<"s", "u", "n">>, <<"-">>, <<"0", "2", "1", "5">>}

RECURSIVE PieceTextsOfLen(_)
PieceTextsOfLen(n) ==
    IF n = 0 THEN {<<>>}
    ELSE {t \o piece : t \in PieceTextsOfLen(n - 1), piece \in Pieces}

PieceTexts == UNION {PieceTextsOfLen(n) : n \in 0..MaxPieces}

LexerTexts == FourDigits \cup RunTexts \cup PieceTexts

InitLexer ==
    /\ schedule = NoSchedule
    /\ weekday_interval = NoWeekdayInterval
    /\ source \in LexerTexts
    /\ written = <<>>
    /\ now = Moment(1, 0, 0, 0, 0, 0)
    /\ lexer = Lexer(source)
    /\ trie = NoTrie
    /\ added = {}
    /\ call = NoCall

\* a call of next_token; a LexerError ends the use of the Lexer
NextToken ==
    /\ lexer.error.raised = "none"
    /\ lexer' = next_token(lexer)
    /\ call' = [op |-> "next_token", self |-> lexer,
                ret |-> IF lexer'.error.raised = "none" THEN lexer'.token ELSE lexer'.error]
    /\ UNCHANGED <<schedule, weekday_interval, source, written, now, trie, added>>

NextLexer == NextToken

SpecLexer == InitLexer /\ [][NextLexer]_vars

----------------------------------------------------------------------------
(* Properties of the Lexer *)

\* the call made last was the first next_token call on the text
FirstToken == call.op = "next_token" /\ call.self = Lexer(source)
TokenReturned == call.op = "next_token" /\ lexer.error.raised = "none"
LexerFailed == call.op = "next_token" /\ lexer.error.raised = "LexerError"

\* the number a string of two digits denotes
TwoDigits(string) == 10 * (ord(string[1]) - 48) + (ord(string[2]) - 48)

\* the 0-based index of the first digit of HHMM that cannot stand where it is
\* in a time of day with 00 <= HH <= 23 and 00 <= MM <= 59; 4 when there is none
FirstViolatingDigit(string) ==
    IF ord(string[1]) - 48 > 2 THEN 0
    ELSE IF TwoDigits(SubSeq(string, 1, 2)) > 23 THEN 1
    ELSE IF ord(string[3]) - 48 > 5 THEN 2
    ELSE 4

\* C12: on a 4-digit string HHMM the lexer makes the single token TIME with
\* lexeme HHMM exactly when 00 <= HH <= 23 and 00 <= MM <= 59, and otherwise
\* raises a LexerError at the first violating digit; the lexeme of the TIME
\* token converts through Time.from_string to Time(HH, MM).
C12_TimeTokenRange ==
    (FirstToken /\ source \in FourDigits) =>
        LET hh == TwoDigits(SubSeq(source, 1, 2))
            mm == TwoDigits(SubSeq(source, 3, 4))
        IN IF hh <= 23 /\ mm <= 59
           THEN /\ TokenReturned
                /\ lexer.token.type = "TIME"
                /\ lexer.token.lexeme = source
                /\ from_string(lexer.token.lexeme) = Time(hh, mm)
                /\ next_token(lexer).error.raised = "none"
                /\ next_token(lexer).token.type = "END_INPUT"
           ELSE /\ LexerFailed
                /\ lexer.error.lineno = 0
                /\ lexer.error.column = FirstViolatingDigit(source)

\* "2400" has been rejected at its second digit, with 0..3 expected
C12_Witness ==
    /\ FirstToken
    /\ source = <<"2", "4", "0", "0">>
    /\ LexerFailed
    /\ lexer.error.column = 1
    /\ lexer.error.expected = Expected(HOUR_ENDS_2X)

\* the 0-based offset in the text of the character the Lexer self is at
Offset(self) == Len(source) - Len(self.source) - Len(self.line) + self.column

IsBlank(c) == c \in {" ", "\t", "\f", "\n"}
IsLetter(c) == (65 <= ord(c) /\ ord(c) <= 90) \/ (97 <= ord(c) /\ ord(c) <= 122)

\* the offset of the first character at or after offset o that is neither a
\* blank nor a line break; the length of the text when there is none
FirstNonBlank(o) ==
    CHOOSE k \in o..Len(source) :
        /\ \A j \in (o + 1)..k : IsBlank(source[j])
        /\ (k < Len(source) => ~IsBlank(source[k + 1]))

\* the offset where the token of the call made last starts
TokenStart == FirstNonBlank(Offset(call.self))

\* the maximal run of letters that starts at offset o
RunAt(o) ==
    LET e == CHOOSE k \in o..Len(source) :
                 /\ \A j \in (o + 1)..k : IsLetter(source[j])
                 /\ (k < Len(source) => ~IsLetter(source[k + 1]))
    IN SubSeq(source, o + 1, e)

\* two strings of letters are the same but for the case of their letters
SameButCase(a, b) ==
    /\ Len(a) = Len(b)
    /\ \A k \in 1..Len(a) : ord(a[k]) % 32 = ord(b[k]) % 32

\* C13: for a maximal run of ASCII letters the lexer makes ALLOW, FORBID or
\* DAY_OF_WEEK exactly when the run is, but for case, "allow", "forbid" or one
\* of the 14 weekday names, the lexeme being the run as spelled; every other
\* run raises a LexerError, "all" and "allowed" among them.
C13_KeywordsCaseInsensitive ==
    (call.op = "next_token" /\ TokenStart < Len(source) /\ IsLetter(source[TokenStart + 1])) =>
        LET run == RunAt(TokenStart)
        IN IF SameButCase(run, KeywordList[1])
           THEN TokenReturned /\ lexer.token.type = "ALLOW" /\ lexer.token.lexeme = run
           ELSE IF SameButCase(run, KeywordList[2])
           THEN TokenReturned /\ lexer.token.type = "FORBID" /\ lexer.token.lexeme = run
           ELSE IF \E n \in 3..Len(KeywordList) : SameButCase(run, KeywordList[n])
           THEN TokenReturned /\ lexer.token.type = "DAY_OF_WEEK" /\ lexer.token.lexeme = run
           ELSE LexerFailed

\* the run "WEDNESDAY", after a dash and before a digit, has been made a
\* DAY_OF_WEEK token spelled as written
C13_Witness ==
    /\ TokenReturned
    /\ ~FirstToken
    /\ TokenStart = 1
    /\ RunAt(TokenStart) = <<"W", "E", "D", "N", "E", "S", "D", "A", "Y">>
    /\ Len(source) = 11
    /\ source[11] = "0"
    /\ lexer.token.type = "DAY_OF_WEEK"
    /\ lexer.token.lexeme = RunAt(TokenStart)

\* the number of line breaks among the first o characters of the text
BreaksBefore(o) == Cardinality({j \in 1..o : source[j] = "\n"})
\* the offset of the first character of the line that holds offset o
LineStart(o) ==
    CHOOSE k \in 0..o :
        /\ (k > 0 => source[k] = "\n")
        /\ \A j \in (k + 1)..o : source[j] # "\n"
\* the number of lines of the text: its line breaks, and one more for a last
\* line that has no line break
LinesOfText ==
    BreaksBefore(Len(source))
        + (IF source # <<>> /\ source[Len(source)] # "\n" THEN 1 ELSE 0)

\* C14: the position of every token next_token returns is the 0-based column
\* and line of the first character of its lexeme in the text, a line break
\* adding one to the line and resetting the column; END_INPUT has an empty
\* lexeme, column 0 and as line the number of lines consumed.
C14_TokenPositions ==
    TokenReturned =>
        LET tok == lexer.token
        IN IF TokenStart < Len(source)
           THEN /\ tok.type # "END_INPUT"
                /\ tok.lexeme # <<>>
                /\ tok.lexeme = SubSeq(source, TokenStart + 1, TokenStart + Len(tok.lexeme))
                /\ tok.position.lineno = BreaksBefore(TokenStart)
                /\ tok.position.column = TokenStart - LineStart(TokenStart)
           ELSE /\ tok.type = "END_INPUT"
                /\ tok.lexeme = <<>>
                /\ tok.position.column = 0
                /\ tok.position.lineno = LinesOfText

\* a token on the second line, after a tab, has column 1 and line 1
C14_Witness ==
    /\ TokenReturned
    /\ lexer.token.type = "TIME"
    /\ TokenStart >= 2
    /\ source[TokenStart] = "\t"
    /\ source[TokenStart - 1] = "\n"
    /\ BreaksBefore(TokenStart) = 1
    /\ lexer.token.position = Position(1, 1)

\* the run, but for case, is the first Len(run) letters of the keyword kw
StartsKeyword(run, kw) ==
    Len(run) <= Len(kw) /\ SameButCase(run, SubSeq(kw, 1, Len(run)))

\* the number of leading letters of the run that, but for case, start a keyword
KeywordMatch(run) ==
    CHOOSE k \in 0..Len(run) :
        /\ \E n \in 1..Len(KeywordList) : StartsKeyword(SubSeq(run, 1, k), KeywordList[n])
        /\ \A j \in (k + 1)..Len(run) :
               \A n \in 1..Len(KeywordList) : ~StartsKeyword(SubSeq(run, 1, j), KeywordList[n])

\* C25: for a letter run that is not a keyword, the LexerError column is the
\* run's start column plus the length of the trie's max_match_for result: when
\* the run is a valid but incomplete keyword prefix the error points just past
\* the run and lists exactly chars_after(run) as the expected characters, and
\* otherwise it points at the first character where the run diverges from
\* every keyword and lists no expected characters.
C25_KeywordErrorColumn ==
    (LexerFailed /\ TokenStart < Len(source) /\ IsLetter(source[TokenStart + 1])) =>
        LET run == RunAt(TokenStart)
            start == TokenStart - LineStart(TokenStart)
        IN /\ lexer.error.lineno = BreaksBefore(TokenStart)
           /\ lexer.error.column = start + Len(max_match_for(KEYWORDS, run))
           /\ IF \E n \in 1..Len(KeywordList) : StartsKeyword(run, KeywordList[n])
              THEN /\ lexer.error.column = start + Len(run)
                   /\ lexer.error.expected = Expected(chars_after(KEYWORDS, run))
                   /\ Range(lexer.error.expected.chars) =
                          {KeywordList[n][Len(run) + 1] :
                              n \in {m \in 1..Len(KeywordList) :
                                         /\ StartsKeyword(run, KeywordList[m])
                                         /\ Len(KeywordList[m]) > Len(run)}}
              ELSE /\ lexer.error.column = start + KeywordMatch(run)
                   /\ lexer.error.column < start + Len(run)
                   /\ lexer.error.expected = NoExpected

\* "Sundae" after a dash has been rejected at its last letter, nothing expected
C25_Witness ==
    /\ LexerFailed
    /\ TokenStart = 1
    /\ RunAt(TokenStart) = <<"S", "u", "n", "d", "a", "e">>
    /\ lexer.error.column = 6
    /\ lexer.error.expected = NoExpected

----------------------------------------------------------------------------
(* A diagnostic rendered for a column of the Lexer's line *)

MaxLineLen == 125

\* a line of n digits, the digit at index k being k mod 10, with or without
\* its line break
RenderLine(n, broken) ==
    [k \in 1..n |-> Digits[((k - 1) % 10) + 1]] \o (IF broken THEN <<"\n">> ELSE <<>>)
RenderTexts == {RenderLine(n, broken) : n \in 0..MaxLineLen, broken \in BOOLEAN}

InitRender ==
    /\ schedule = NoSchedule
    /\ weekday_interval = NoWeekdayInterval
    /\ source \in RenderTexts
    /\ written = <<>>
    /\ now = Moment(1, 0, 0, 0, 0, 0)
    /\ lexer = Lexer(source)
    /\ trie = NoTrie
    /\ added = {}
    /\ call = NoCall

\* build_error_string(column) for a column of the line or the place just past it
BuildErrorString(column) ==
    /\ column <= Len(lexer.line)
    /\ call' = [op |-> "build_error_string", column |-> column,
                ret |-> build_error_string(lexer, column)]
    /\ UNCHANGED <<schedule, weekday_interval, source, written, now, lexer, trie, added>>

NextRender == \E column \in 0..(MaxLineLen + 1) : BuildErrorString(column)

SpecRender == InitRender /\ [][NextRender]_vars

----------------------------------------------------------------------------
(* Properties of a rendered diagnostic *)

\* the index in the diagnostic of the line break between its two lines
RenderedBreak(string) == CHOOSE k \in 1..Len(string) : string[k] = "\n"
\* the rendered text and the arrow line, each after its five spaces
RenderedText(string) == SubSeq(string, 6, RenderedBreak(string) - 1)
RenderedArrow(string) == SubSeq(string, RenderedBreak(string) + 6, Len(string))
\* the number of characters before the arrow head in the arrow line
ArrowAt(string) == CHOOSE k \in 0..Len(string) : RenderedArrow(string)[k + 1] = "^"

\* the diagnostic shows at most 80 characters of the line from index
\* max(0, c - 39) on, and the arrow head is c - max(0, c - 39) places in
WindowAndArrow(string, line, c) ==
    LET w == IF c - 39 > 0 THEN c - 39 ELSE 0
        text == RenderedText(string)
    IN /\ \A k \in 1..5 : string[k] = " " /\ string[RenderedBreak(string) + k] = " "
       /\ Len(text) <= 80
       /\ \A k \in 1..Len(text) : text[k] = line[w + k]
       /\ Len(RenderedArrow(string)) = c - w + 1
       /\ \A k \in 1..(c - w) : RenderedArrow(string)[k] = " "
       /\ ArrowAt(string) = c - w
       /\ ArrowAt(string) <= 39

\* the character at column c is rendered, and the arrow head is under it
ArrowUnderCharacter(string, line, c) ==
    /\ ArrowAt(string) < Len(RenderedText(string))
    /\ RenderedText(string)[ArrowAt(string) + 1] = line[c + 1]

\* C26: for every source line and error column c within the line, the
\* rendered diagnostic shows at most 80 characters of the line starting at
\* index max(0, c - 39), and the arrow is placed c - max(0, c - 39) characters
\* into the rendered text (at most 39), so the arrow is always under the
\* character at column c and that character is always inside the rendered
\* window.
C26_ArrowUnderColumn ==
    (call.op = "build_error_string" /\ call.column < Len(lexer.line)) =>
        /\ WindowAndArrow(call.ret, lexer.line, call.column)
        /\ ArrowUnderCharacter(call.ret, lexer.line, call.column)

\* C26, amended: as C26, except when column c holds the line break that ends
\* the line, which is not rendered: the arrow then stands one place past the
\* rendered text.
C26_ArrowUnderColumnOrPastText ==
    (call.op = "build_error_string" /\ call.column < Len(lexer.line)) =>
        /\ WindowAndArrow(call.ret, lexer.line, call.column)
        /\ IF lexer.line[call.column + 1] = "\n"
           THEN ArrowAt(call.ret) = Len(RenderedText(call.ret))
           ELSE ArrowUnderCharacter(call.ret, lexer.line, call.column)

\* column 100 of a line of 125 characters: the window is columns 61 to 124,
\* the line break left out, and the arrow is 39 places in
C26_Witness ==
    /\ call.op = "build_error_string"
    /\ call.column = 100
    /\ Len(lexer.line) = 125
    /\ lexer.line[125] = "\n"
    /\ Len(RenderedText(call.ret)) = 63
    /\ RenderedText(call.ret)[1] = "1"
    /\ ArrowAt(call.ret) = 39

----------------------------------------------------------------------------
(* A Trie built by add and queried *)

MaxAdds == 3

TrieChars == {"a", "b", "A"}

RECURSIVE TrieStringsOfLen(_)
TrieStringsOfLen(n) ==
    IF n = 0 THEN {<<>>}
    ELSE {Append(t, c) : t \in TrieStringsOfLen(n - 1), c \in TrieChars}

\* the strings added: the empty string, prefixes and extensions of each other,
\* some in upper case; the strings asked for: all of up to three characters
TrieKeys ==
    {<<>>, <<"a">>, <<"A">>, <<"b">>, <<"a", "b">>, <<"A", "b">>, <<"b", "a">>, <<"a", "a">>}
TrieQueries ==
    TrieStringsOfLen(0) \cup TrieStringsOfLen(1) \cup TrieStringsOfLen(2)
        \cup TrieStringsOfLen(3)

InitTrie ==
    /\ schedule = NoSchedule
    /\ weekday_interval = NoWeekdayInterval
    /\ source = <<>>
    /\ written = <<>>
    /\ now = Moment(1, 0, 0, 0, 0, 0)
    /\ lexer = NoLexer
    /\ trie = Trie
    /\ added = {}
    /\ call = NoCall

Add(string) ==
    /\ Cardinality(added \cup {string}) <= MaxAdds
    /\ trie' = add(trie, string)
    /\ added' = added \cup {string}
    /\ call' = [op |-> "add", arg |-> string]
    /\ UNCHANGED <<schedule, weekday_interval, source, written, now, lexer>>

TrieContains(string) ==
    /\ call' = [op |-> "contains", arg |-> string, ret |-> trie_contains(trie, string)]
    /\ UNCHANGED <<schedule, weekday_interval, source, written, now, lexer, trie, added>>

ContainsPrefix(string) ==
    /\ call' = [op |-> "contains_prefix", arg |-> string,
                ret |-> contains_prefix(trie, string)]
    /\ UNCHANGED <<schedule, weekday_interval, source, written, now, lexer, trie, added>>

CharsAfter(string) ==
    /\ call' = [op |-> "chars_after", arg |-> string, ret |-> chars_after(trie, string)]
    /\ UNCHANGED <<schedule, weekday_interval, source, written, now, lexer, trie, added>>

MaxMatchFor(string) ==
    /\ call' = [op |-> "max_match_for", arg |-> string,
                ret |-> max_match_for(trie, string)]
    /\ UNCHANGED <<schedule, weekday_interval, source, written, now, lexer, trie, added>>

NextTrie ==
    \/ \E string \in TrieKeys : Add(string)
    \/ \E string \in TrieQueries : TrieContains(string)
    \/ \E string \in TrieQueries : ContainsPrefix(string)
    \/ \E string \in TrieQueries : CharsAfter(string)
    \/ \E string \in TrieQueries : MaxMatchFor(string)

SpecTrie == InitTrie /\ [][NextTrie]_vars

----------------------------------------------------------------------------
(* Properties of the Trie *)

IsUpper(c) == 65 <= ord(c) /\ ord(c) <= 90
\* string t is the case-folded form of string s
FoldsTo(s, t) == SameButCase(s, t) /\ \A k \in 1..Len(t) : ~IsUpper(t[k])
\* the first n characters of a string
Prefix(string, n) == SubSeq(string, 1, n)

\* every string added so far is a key and all its prefixes have a path
AddedKeysStay ==
    \A k \in added :
        /\ trie_contains(trie, k)
        /\ \A n \in 0..Len(k) : contains_prefix(trie, Prefix(k, n))

\* contains(s) is true exactly when s equals, but for case, an added string
ContainsIffAdded ==
    call.op = "contains" => (call.ret <=> \E k \in added : SameButCase(call.arg, k))

\* C15 as stated: after any sequence of add calls on an empty trie,
\* contains(s) is true exactly when the case-folded s equals the case-folded
\* form of an added string, contains_prefix(s) is true exactly when the
\* case-folded s is a prefix of an added string, and a later add never removes
\* or un-marks an earlier key.
C15_ContainsPrefixIffPrefixOfAdded ==
    /\ ContainsIffAdded
    /\ AddedKeysStay
    /\ call.op = "contains_prefix" =>
           (call.ret <=> \E k \in added :
                /\ Len(call.arg) <= Len(k)
                /\ FoldsTo(call.arg, Prefix(k, Len(call.arg))))

\* C15 amended: contains_prefix(s) is true exactly when s is empty or the
\* case-folded s is a prefix of the case-folded form of an added string; the
\* rest as stated.
C15_ContainsPrefixIffPrefixOfFoldedAdded ==
    /\ ContainsIffAdded
    /\ AddedKeysStay
    /\ call.op = "contains_prefix" =>
           (call.ret <=>
                \/ call.arg = <<>>
                \/ \E k \in added :
                       /\ Len(call.arg) <= Len(k)
                       /\ SameButCase(call.arg, Prefix(k, Len(call.arg))))

\* a string added in upper case is found as a prefix by its lower-case
\* beginning, after a prefix of it and an extension of it were added too
C15_Witness ==
    /\ call.op = "contains_prefix"
    /\ call.arg = <<"a">>
    /\ call.ret = TRUE
    /\ added = {<<"A", "b">>, <<"A">>, <<>>}

\* C16: max_match_for(s) is the longest prefix p of the case-folded s for
\* which contains_prefix(p) is true, the empty string when even the first
\* character has no path; it equals the case-folded s exactly when
\* contains_prefix(s) is true.
C16_MaxMatchIsLongestPrefixWithPath ==
    call.op = "max_match_for" =>
        LET p == call.ret
            s == call.arg
        IN /\ Len(p) <= Len(s)
           /\ FoldsTo(Prefix(s, Len(p)), p)
           /\ contains_prefix(trie, p)
           /\ \A n \in (Len(p) + 1)..Len(s) : ~contains_prefix(trie, Prefix(s, n))
           /\ (Len(s) > 0 /\ ~contains_prefix(trie, Prefix(s, 1))) => p = <<>>
           /\ FoldsTo(s, p) <=> contains_prefix(trie, s)

\* the match stops inside the string, past a key, at a node that is not a key
C16_Witness ==
    /\ call.op = "max_match_for"
    /\ call.arg = <<"A", "b", "b">>
    /\ call.ret = <<"a", "b">>
    /\ added = {<<"a">>, <<"A", "b">>}

\* the characters the query strings are made of
QueryChars == TrieChars

Ascending(seq) == \A k \in 1..(Len(seq) - 1) : ord(seq[k]) < ord(seq[k + 1])

\* C17 as stated: chars_after(s) is the strictly ascending list of exactly the
\* single characters c for which contains_prefix(s + c) is true, the empty
\* list when s has no path; the terminal marker is never in it.
C17_CharsAfterAreTheNextCharacters ==
    call.op = "chars_after" =>
        /\ Ascending(call.ret)
        /\ \A c \in QueryChars :
               (\E k \in 1..Len(call.ret) : call.ret[k] = c)
                   <=> contains_prefix(trie, Append(call.arg, c))
        /\ \A k \in 1..Len(call.ret) : call.ret[k] \in QueryChars
        /\ ~contains_prefix(trie, call.arg) => call.ret = <<>>

\* C17 amended: chars_after(s) is the strictly ascending list of exactly the
\* case-folded single characters c for which contains_prefix(s + c) is true;
\* the rest as stated.
C17_CharsAfterAreTheFoldedNextCharacters ==
    call.op = "chars_after" =>
        /\ Ascending(call.ret)
        /\ \A c \in {d \in QueryChars : ~IsUpper(d)} :
               (\E k \in 1..Len(call.ret) : call.ret[k] = c)
                   <=> contains_prefix(trie, Append(call.arg, c))
        /\ \A k \in 1..Len(call.ret) :
               call.ret[k] \in QueryChars /\ ~IsUpper(call.ret[k])
        /\ ~contains_prefix(trie, call.arg) => call.ret = <<>>

\* two characters follow a key that is itself terminal, asked for in upper case
C17_Witness ==
    /\ call.op = "chars_after"
    /\ call.arg = <<"A">>
    /\ call.ret = <<"a", "b">>
    /\ trie_contains(trie, <<"a">>)

----------------------------------------------------------------------------
(* The grammar of the parser's docstrings, as the positions a phrase that      *)
(* starts at token i can end before *)

\* days := DAY_OF_WEEK ('-' DAY_OF_WEEK)?
DaysEnds(src, i) ==
    (IF IsDay(token_at(src, i)) THEN {i + 1} ELSE {})
        \cup (IF /\ IsDay(token_at(src, i))
                 /\ IsDash(token_at(src, i + 1))
                 /\ IsDay(token_at(src, i + 2))
              THEN {i + 3} ELSE {})

\* interval := TIME ('-' TIME)? | '-' TIME
IntervalEnds(src, i) ==
    (IF IsTime(token_at(src, i)) THEN {i + 1} ELSE {})
        \cup (IF /\ IsTime(token_at(src, i))
                 /\ IsDash(token_at(src, i + 1))
                 /\ IsTime(token_at(src, i + 2))
              THEN {i + 3} ELSE {})
        \cup (IF IsDash(token_at(src, i)) /\ IsTime(token_at(src, i + 1))
              THEN {i + 2} ELSE {})

\* intervals := interval+
RECURSIVE IntervalsEnds(_, _)
IntervalsEnds(src, i) ==
    IntervalEnds(src, i) \cup UNION {IntervalsEnds(src, j) : j \in IntervalEnds(src, i)}

\* agenda := ALLOW intervals | FORBID intervals
AgendaEnds(src, i) ==
    IF token_at(src, i).type \in {"ALLOW", "FORBID"} THEN IntervalsEnds(src, i + 1) ELSE {}

\* agendas := agenda+
RECURSIVE AgendasEnds(_, _)
AgendasEnds(src, i) ==
    AgendaEnds(src, i) \cup UNION {AgendasEnds(src, j) : j \in AgendaEnds(src, i)}

\* days agendas
GroupEnds(src, i) == UNION {AgendasEnds(src, j) : j \in DaysEnds(src, i)}

\* schedule := (days agendas)+
RECURSIVE ScheduleEnds(_, _)
ScheduleEnds(src, i) ==
    GroupEnds(src, i) \cup UNION {ScheduleEnds(src, j) : j \in GroupEnds(src, i)}

\* the whole token stream, up to END_INPUT, is a schedule
Derivable(src) == (Len(src) + 1) \in ScheduleEnds(src, 1)

\* C11: on a stream of valid tokens ending in END_INPUT, Parser.parse succeeds
\* exactly when the stream is derivable from the grammar, with the whole
\* stream consumed, and fails with a ParserError otherwise; empty input, days
\* with no agenda and an agenda with no interval are rejected.
C11_ParseAcceptsTheGrammar ==
    call.op = "parse" =>
        /\ call.ret.raised \in {"none", "ParserError"}
        /\ call.ret.raised = "none" <=> Derivable(source)
        /\ call.ret.raised = "none" => call.ret.i = Len(source) + 1
        /\ source = <<>> => call.ret.raised = "ParserError"
        /\ (source # <<>> /\ IsDay(Tok(Len(source)))) => call.ret.raised = "ParserError"
        /\ (source # <<>> /\ Tok(Len(source)).type \in {"ALLOW", "FORBID"})
               => call.ret.raised = "ParserError"
        /\ \A n \in 1..Len(source) :
               (Tok(n).type \in {"ALLOW", "FORBID"} /\ ~IsTime(Tok(n + 1)) /\ ~IsDash(Tok(n + 1)))
                   => call.ret.raised = "ParserError"

\* a stream that ends in an agenda with no interval, after a complete group,
\* has been rejected at the END_INPUT token
C11_Witness ==
    /\ call.op = "parse"
    /\ written = <<>>
    /\ Len(source) = 5
    /\ Derivable(SubSeq(source, 1, 3))
    /\ Tok(4).type = "ALLOW"
    /\ Tok(5).type = "FORBID"
    /\ call.ret.raised = "ParserError"
    /\ call.ret.i = 5

----------------------------------------------------------------------------
(* A schedule text parsed by from_dsl, and the Lexer read on afterwards *)

MaxWords == 4

\* the words of the texts of up to MaxWords words, each after a blank or each
\* on a new line after a tab: day names, directives, dashes, times and the
\* unfinished "su"
DslWords ==
    {<<"s", "u", "n">>, <<"a", "l", "l", "o", "w">>, <<"f", "o", "r", "b", "i", "d">>,
     <<"-">>, <<"0", "2", "1", "5">>, <<"s", "u">>}

RECURSIVE WordTextsOfLen(_, _)
WordTextsOfLen(n, sep) ==
    IF n = 0 THEN {<<>>}
    ELSE {t \o sep \o w : t \in WordTextsOfLen(n - 1, sep), w \in DslWords}

WordTexts ==
    UNION {WordTextsOfLen(n, <<" ">>) \cup WordTextsOfLen(n, <<"\n", "\t">>) : n \in 0..MaxWords}

\* an agenda of the times 0215, 2330 and 0100 with dashes between them, each
\* gap empty or filled with blanks, tabs or line breaks
Gaps == {<<>>, <<" ">>, <<"\t">>, <<"\n">>, <<" ", "\n", " ">>}
GapTexts ==
    LET head == <<"s", "u", "n", " ", "a", "l", "l", "o", "w", " ", "0", "2", "1", "5">>
        two == {head \o g1 \o <<"-">> \o g2 \o <<"2", "3", "3", "0">> : g1 \in Gaps, g2 \in Gaps}
    IN two \cup {t \o g3 \o <<"-">> \o g4 \o <<"0", "1", "0", "0">> :
                    t \in two, g3 \in Gaps, g4 \in Gaps}

\* texts of two groups of days and agendas, whole or broken off
GroupTexts ==
    LET sun == <<"s", "u", "n">>
        allow == <<"a", "l", "l", "o", "w">>
        forbid == <<"f", "o", "r", "b", "i", "d">>
        t0215 == <<"0", "2", "1", "5">>
        group == sun \o <<" ">> \o allow \o <<" ">> \o t0215
    IN {group \o <<"\n">> \o sun \o <<" ">> \o forbid \o <<" ", "-">> \o t0215,
        group \o <<"\n">> \o sun \o <<" ">> \o forbid \o <<" ", "-">> \o t0215 \o <<"\n">>,
        group \o <<" ">> \o forbid \o <<" ">> \o t0215 \o <<"\n", "\n">> \o group,
        group \o <<" ">> \o sun,
        group \o <<" ">> \o sun \o <<" ">> \o t0215,
        group \o <<" ">> \o sun \o <<" ">> \o allow \o <<" ">> \o t0215 \o <<" ", "s", "u">>,
        group \o <<" ">> \o sun \o <<" ">> \o allow \o <<" ">> \o t0215 \o <<" ">> \o allow}

DslTexts == WordTexts \cup GapTexts \cup GroupTexts
DslTz == {0, 5 * SecPerHour + 30 * SecPerMinute}

InitDsl ==
    /\ schedule = NoSchedule
    /\ weekday_interval = NoWeekdayInterval
    /\ source \in DslTexts
    /\ written = <<>>
    /\ now = Moment(1, 0, 0, 0, 0, 0)
    /\ lexer = Lexer(source)
    /\ trie = NoTrie
    /\ added = {}
    /\ call = NoCall

\* schedule = from_dsl(source, tz): the Lexer is made anew from the text
FromDsl(tz) ==
    /\ call = NoCall
    /\ \E p \in {from_dsl(source, tz)} :
           /\ lexer' = p.lexer
           /\ schedule' = IF p.ret.raised = "none" THEN p.ret.value ELSE schedule
           /\ call' = [op |-> "from_dsl", tz |-> tz, ret |-> p.ret]
    /\ UNCHANGED <<weekday_interval, source, written, now, trie, added>>

\* a further next_token call on the Lexer the Parser has used
NextTokenAfter ==
    /\ call # NoCall
    /\ NextToken

NextDsl ==
    \/ \E tz \in DslTz : FromDsl(tz)
    \/ NextTokenAfter

SpecDsl == InitDsl /\ [][NextDsl]_vars

----------------------------------------------------------------------------
(* Properties of from_dsl *)

\* the Lexer after each next_token call on the text, read to its end or to
\* its first malformed character sequence
TextRun == next_tokens(Lexer(source))

\* what can follow a phrase that is the beginning of a schedule and make it one
Completions ==
    {<<>>,
     <<Token("TIME", <<"0", "0", "0", "0">>)>>,
     <<AllowToken, Token("TIME", <<"0", "0", "0", "0">>)>>,
     <<Token("DAY_OF_WEEK", <<"s", "u", "n">>), AllowToken, Token("TIME", <<"0", "0", "0", "0">>)>>}

\* the first k of the tokens can begin a schedule; when the k-th is
\* END_INPUT, the tokens before it are a schedule
Viable(tokens, k) ==
    IF tokens[k].type = "END_INPUT"
    THEN Derivable(SubSeq(tokens, 1, k - 1))
    ELSE \E c \in Completions : Derivable(SubSeq(tokens, 1, k) \o c)

\* the calls whose outcome is a LexerError or a misplaced token
Offending(tokens) ==
    {k \in 1..Len(tokens) : tokens[k].type = "LexerError" \/ ~Viable(tokens, k)}
First(S) == CHOOSE k \in S : \A j \in S : k <= j

\* C23: parsing a schedule text either fully succeeds or fails with exactly
\* one error raised at the first offending position in source order: a
\* LexerError when the earliest problem is a malformed character sequence and
\* a ParserError when it is a misplaced token; no token after the offending
\* one is read, no Schedule, not even a partial one, is returned, and a
\* lexical error is never converted into a ParserError.
C23_OneErrorAtFirstOffence ==
    call.op = "from_dsl" =>
        \A run \in {TextRun} : \A tokens \in {token_stream(run)} :
            \A offending \in {Offending(tokens)} :
                IF offending = {}
                THEN /\ call.ret.raised = "none"
                     /\ schedule = call.ret.value
                     /\ call.ret.calls = Len(tokens)
                ELSE /\ call.ret.raised \in {"LexerError", "ParserError"}
                     /\ call.ret.raised = "LexerError"
                            <=> tokens[First(offending)].type = "LexerError"
                     /\ call.ret.raised = "LexerError"
                            => call.ret.error = run[First(offending)].error
                     /\ call.ret.raised = "ParserError"
                            => call.ret.got = tokens[First(offending)].type
                     /\ call.ret.calls = First(offending)
                     /\ lexer = run[First(offending)]
                     /\ schedule = NoSchedule

\* a text with a misplaced second token and, two tokens on, an unfinished
\* word: the ParserError is raised at the second token and no more is read
C23_Witness ==
    /\ call.op = "from_dsl"
    /\ call.ret.raised = "ParserError"
    /\ call.ret.calls = 2
    /\ Len(TextRun) = 4
    /\ TextRun[4].error.raised = "LexerError"
    /\ schedule = NoSchedule

\* the token the Parser complained of: the Lexer's current token
OffendingToken == lexer.token

\* C24: every ParserError reports the line and column of the offending token:
\* the line and column stated in the message are the position recorded for
\* the token that violated the grammar, the position of its first character,
\* and the arrow of the rendered source line points at that same column.
C24_ParserErrorAtTokenPosition ==
    (call.op = "from_dsl" /\ call.ret.raised = "ParserError") =>
        /\ call.ret.lineno = OffendingToken.position.lineno
        /\ call.ret.column = OffendingToken.position.column
        /\ ArrowAt(call.ret.rendered)
               = call.ret.column - max(0, call.ret.column - ArrowColumn)

\* the stated line and the arrow are those of the offending token
C24_LineAndArrowAtTokenPosition ==
    (call.op = "from_dsl" /\ call.ret.raised = "ParserError") =>
        /\ call.ret.lineno = OffendingToken.position.lineno
        /\ ArrowAt(call.ret.rendered)
               = OffendingToken.position.column
                     - max(0, OffendingToken.position.column - ArrowColumn)

\* the stated column is the one just past the offending token, and the
\* token's own column when the token is END_INPUT
C24_StatedColumnPastToken ==
    (call.op = "from_dsl" /\ call.ret.raised = "ParserError") =>
        call.ret.column = OffendingToken.position.column + Len(OffendingToken.lexeme)

\* C29: whenever Parser.parse returns a Schedule the whole input has been
\* consumed: every token of the text has been read and the Lexer's current
\* token is END_INPUT, so no trailing text is ignored; and once the Lexer has
\* returned END_INPUT, every further next_token call returns END_INPUT again
\* with the same position.
C29_WholeInputConsumed ==
    /\ (call.op = "from_dsl" /\ call.ret.raised = "none") =>
           \A run \in {TextRun} :
               /\ lexer.token.type = "END_INPUT"
               /\ lexer = run[Len(run)]
               /\ call.ret.calls = Len(run)
    /\ (call.op = "next_token" /\ call.self.token.type = "END_INPUT") =>
           /\ lexer.error.raised = "none"
           /\ call.ret.type = "END_INPUT"
           /\ call.ret.position = call.self.token.position
           /\ call.ret = call.self.token

\* a schedule of two groups has been returned and next_token, called again
\* after END_INPUT, has returned END_INPUT on the line after the text's last
C29_Witness ==
    /\ call.op = "next_token"
    /\ call.self.token.type = "END_INPUT"
    /\ call.ret.type = "END_INPUT"
    /\ call.ret.position.lineno = 2
    /\ schedule # NoSchedule
    /\ Len(schedule.allowed) = 1
    /\ Len(schedule.forbidden) = 1

\* the intervals a text of GapTexts is to give: 02:15-23:30 and, when a
\* third time follows a second dash, 00:00-01:00
GapIntervals(tokens) ==
    IF Len(tokens) = 6
    THEN <<WeekdayInterval(0, Interval(Time(2, 15), Time(23, 30)))>>
    ELSE <<WeekdayInterval(0, Interval(Time(2, 15), Time(23, 30))),
           WeekdayInterval(0, Interval(start_of_day, Time(1, 0)))>>

\* C30: interval parsing is greedy and whitespace-insensitive: within an
\* intervals list a TIME followed by a DASH followed by a TIME is parsed as
\* the single interval TIME-TIME, never as the two intervals TIME (ending
\* 23:59) and -TIME (starting 00:00), whatever blanks, tabs or line breaks
\* separate the three tokens; a DASH directly after a complete TIME-TIME
\* interval starts a new -TIME interval.
C30_GreedyIntervals ==
    (call.op = "from_dsl" /\ source \in GapTexts) =>
        \A tokens \in {token_stream(TextRun)} :
            /\ Len(tokens) \in {6, 8}
            /\ call.ret.raised = "none"
            /\ call.ret.calls = Len(tokens)
            /\ schedule.allowed = GapIntervals(tokens)
            /\ schedule.forbidden = <<>>

\* "sun allow 0215" then a line break, a dash, a tab, "2330", a dash with
\* blanks and a line break before it and "0100": two intervals are returned
C30_Witness ==
    /\ call.op = "from_dsl"
    /\ source = <<"s", "u", "n", " ", "a", "l", "l", "o", "w", " ", "0", "2", "1", "5",
                  "\n", "-", "\t", "2", "3", "3", "0", " ", "\n", " ", "-", "0", "1", "0", "0">>
    /\ call.ret.raised = "none"
    /\ Len(schedule.allowed) = 2
    /\ schedule.allowed[1].interval = Interval(Time(2, 15), Time(23, 30))
    /\ schedule.allowed[2].interval = Interval(start_of_day, Time(1, 0))

====
